---- MODULE Spec2Model ----
(***************************************************************************)
(* Model of the BSGS diagonal-method benchmarks of openfhe-benchmarks:     *)
(*   examples/bsgs-diagonal-method.cpp                ("bsgs")             *)
(*   examples/single-hoisted-bsgs-diagonal-method.cpp ("hoisted")          *)
(* and of the helpers of examples/utils.hpp they call.                     *)
(*                                                                         *)
(* A ciphertext is modelled by the vector it encrypts (exact arithmetic,   *)
(* one integer per slot); the crypto context by the set of rotation keys   *)
(* it currently holds; the data directory by the files written to it.      *)
(***************************************************************************)
EXTENDS Integers, Sequences, FiniteSets, TLC

\* ------------------------------------------------------------------ bounds
\* Largest slot count (numSlots) explored.
MaxSlots == 4
\* Largest matrix dimension (matrixDim) explored.
MaxDim == 3
\* Largest number of non-zero entries of the random matrix explored.
MaxNonZero == 3
\* Range of the arguments of the signed-index helpers explored on their own.
MaxArg == 12
\* Largest slot count for which the signed conversion loop is explored on its
\* own, over every set of unsigned offsets.
MaxConvSlots == 6
\* Largest dimension of the dense block whose plan is explored on its own.
MaxDenseDim == 16
\* Largest count of diagonals, and slot count, for which the choice of n1 is
\* explored on its own.
MaxDiagonals == 40
\* Largest approximation error of a decrypted slot explored, in thousandths.
MaxNoise == 2

\* ------------------------------------------------------------- C++ integers
Abs(x) == IF x < 0 THEN -x ELSE x

\* C++ integer division: the quotient is truncated toward zero.
CppDiv(a, b) ==
    LET q == Abs(a) \div Abs(b)
    IN  IF (a < 0) # (b < 0) THEN -q ELSE q

\* C++ remainder: a == (a / b) * b + a % b, so it has the sign of a.
CppMod(a, b) == a - b * CppDiv(a, b)

\* 2^64 mod n, by six squarings of 2 (the value itself does not fit an integer
\* of the checker).
SqMod(x, n) == (x * x) % n
Pow2_64Mod(n) == SqMod(SqMod(SqMod(SqMod(SqMod(SqMod(2 % n, n), n), n), n), n), n)

\* `positions % n` with n a std::size_t: positions is converted to an unsigned
\* 64-bit value (2^64 + positions when negative) before the remainder is taken.
UnsignedMod(positions, n) ==
    IF positions >= 0 THEN positions % n
    ELSE (Pow2_64Mod(n) + (positions % n)) % n

\* ------------------------------------------------- signed indexing helpers
\* Mutants of normalizeToSignedIndex: the comparison inverted; the half
\* itself sent to the negative side.
NormalizeInverted(k, numSlotsArg) ==
    LET halfSlots == CppDiv(numSlotsArg, 2)
    IN  IF k >= halfSlots THEN k ELSE k - numSlotsArg

NormalizeHalfNegative(k, numSlotsArg) ==
    LET halfSlots == CppDiv(numSlotsArg, 2)
    IN  IF k < halfSlots THEN k ELSE k - numSlotsArg

normalizeToSignedIndex(k, numSlotsArg) ==
    LET halfSlots == CppDiv(numSlotsArg, 2)
    IN  IF k <= halfSlots THEN k ELSE k - numSlotsArg

\* Mutant of floorDivision: the adjustment forgotten.
TruncatingDivision(a, b) == CppDiv(a, b)

floorDivision(a, b) ==
    LET quotient  == CppDiv(a, b)
        remainder == CppMod(a, b)
    IN  IF remainder # 0 /\ ((a < 0) # (b < 0)) THEN quotient - 1 ELSE quotient

\* ----------------------------------------------------------- utils.hpp
Slots(n) == 0 .. (n - 1)

\* Smallest element of a non-empty set of integers (std::set iteration order).
SetMin(S) == CHOOSE x \in S : \A y \in S : x <= y
SetMax(S) == CHOOSE x \in S : \A y \in S : x >= y

\* The elements of a std::set<int> in iteration (ascending) order.
RECURSIVE Ascending(_)
Ascending(S) == IF S = {} THEN << >> ELSE <<SetMin(S)>> \o Ascending(S \ {SetMin(S)})

\* Matrix entries are whole numbers of 1e-10: the bound of
\* std::abs(diag[i]) > 1e-10 is one unit.
NonZeroThreshold == 1

\* Mutant of FillDiagonal: the test on the entry without std::abs.
FillDiagonalSigned(Mx, actualDim, numSlotsArg, k) ==
    [diag |-> [i \in Slots(numSlotsArg) |->
                  IF i < actualDim /\ (i + k) % numSlotsArg < actualDim
                  THEN Mx[<<i, (i + k) % numSlotsArg>>] ELSE 0],
     hasNonZero |-> \E i \in Slots(actualDim) :
                       /\ (i + k) % numSlotsArg < actualDim
                       /\ Mx[<<i, (i + k) % numSlotsArg>>] > NonZeroThreshold]

\* The inner loop of extract_generalized_diagonals for one offset k: diag
\* starts as zeros, and for i = 0 .. actualDim - 1 with j = (i + k) % numSlots
\* inside the block, diag[i] = M[i][j] and hasNonZero is raised when the
\* entry's magnitude is above the threshold.
FillDiagonal(Mx, actualDim, numSlotsArg, k) ==
    LET RECURSIVE Fill(_, _, _)
        Fill(i, diag, has) ==
            IF i >= actualDim THEN [diag |-> diag, hasNonZero |-> has]
            ELSE LET j == (i + k) % numSlotsArg
                 IN  IF j < actualDim
                     THEN Fill(i + 1, [diag EXCEPT ![i] = Mx[<<i, j>>]],
                               has \/ Abs(Mx[<<i, j>>]) > NonZeroThreshold)
                     ELSE Fill(i + 1, diag, has)
    IN  Fill(0, [i \in Slots(numSlotsArg) |-> 0], FALSE)

\* One generalized diagonal as the loop leaves it.
DiagonalOf(Mx, actualDim, numSlotsArg, k) ==
    FillDiagonal(Mx, actualDim, numSlotsArg, k).diag

\* std::map offset -> diagonal: the outer loop over k = 0 .. numSlots - 1
\* stores only the diagonals whose hasNonZero was raised.
extract_generalized_diagonals(Mx, actualDim, numSlotsArg) ==
    LET keys == {k \in Slots(numSlotsArg) :
                    FillDiagonal(Mx, actualDim, numSlotsArg, k).hasNonZero}
    IN  [k \in keys |-> DiagonalOf(Mx, actualDim, numSlotsArg, k)]

\* result[(i + positions) % n] = vec[i], positions reduced as the code does.
rotateVectorDown(vec, positions) ==
    LET n  == Cardinality(DOMAIN vec)
        p0 == UnsignedMod(positions, n)
        p  == IF p0 < 0 THEN p0 + n ELSE p0
    IN  [r \in DOMAIN vec |-> vec[CHOOSE i \in DOMAIN vec : (i + p) % n = r]]

\* Expected result of verify_matrix_vector_result: M * input on the block.
ExpectedProduct(Mx, input, actualDim, numSlotsArg) ==
    LET RECURSIVE RowSum(_, _)
        RowSum(i, j) == IF j >= actualDim THEN 0
                        ELSE Mx[<<i, j>>] * input[j] + RowSum(i, j + 1)
    IN  [i \in Slots(numSlotsArg) |-> IF i < actualDim THEN RowSum(i, 0) ELSE 0]

\* ------------------------------------------- the HE library's capabilities
\* An unassigned Ciphertext<DCRTPoly> (a null shared pointer).
Null == << >>

\* EvalRotate: slot r of the result is slot r + amount of the argument,
\* cyclically.
EvalRotate(ct, amount, n) == [r \in Slots(n) |-> ct[(r + amount) % n]]
\* Mutant of EvalFastRotationPrecompute: digits that are not those of the
\* ciphertext given.
EvalFastRotationPrecomputeStale(ct) == [digitsOf |-> [r \in DOMAIN ct |-> 0]]

\* EvalFastRotationPrecompute: the digit decomposition of the ciphertext,
\* which carries what the ciphertext encrypts.
EvalFastRotationPrecompute(ct) == [digitsOf |-> ct]

\* EvalFastRotation: the rotation assembled from the ciphertext and from the
\* precomputed digits; it is the rotation of the ciphertext when the digits
\* are its own, and off by the rotated difference otherwise.
EvalFastRotation(ct, amount, digits, n) ==
    [r \in Slots(n) |->
        ct[(r + amount) % n]
            + (digits.digitsOf[(r + amount) % n] - ct[(r + amount) % n])]
\* EvalMult(ciphertext, plaintext): slot-wise product.
EvalMult(ct, pt, n) == [r \in Slots(n) |-> ct[r] * pt[r]]
\* EvalAdd: slot-wise sum.
EvalAdd(a, b, n) == [r \in Slots(n) |-> a[r] + b[r]]


\* ------------------------------------------------------------------- state
VARIABLES
    variant,              \* which example runs: "bsgs" or "hoisted"
    pc,                   \* position of main
    numSlots,             \* cc->GetEncodingParams()->GetBatchSize()
    matrixDim,            \* matrixDim
    matrixDimArg,         \* matrixDim as 32 unsigned bits: <<high 16, low 16>>
    keyPair,              \* "none" before cc->KeyGen(), "generated" after
    secretKeyUses,        \* the library calls keyPair.secretKey was passed to
    M,                    \* the embedded random matrix, <<row, col>> -> value
    inputVec,             \* the random input vector
    diagonalsUnsigned,    \* offset in [0, numSlots) -> diagonal
    diagonalsSigned,      \* signed offset -> diagonal
    n1,                   \* baby-step count
    usedBabySteps,        \* std::set<int> usedBabySteps
    usedGiantSteps,       \* std::set<int> usedGiantSteps
    preshiftedDiagonals,  \* signed offset -> pre-shifted diagonal plaintext
    rotationIndices,      \* std::set<int> rotationIndices
    genIdx,               \* position of the key generation loop (1-based)
    generated,            \* every amount EvalRotateKeyGen was called for
    evalKeys,             \* rotation keys resident in the crypto context
    keyFiles,             \* persisted key files: amount -> keys serialized
    inputFile,            \* the serialized input ciphertext, Null before
    cipherInput,          \* the input ciphertext loaded for the evaluation
    precomputedDigits,    \* hoisted: EvalFastRotationPrecompute(cipherInput)
    babyRotationCache,    \* i -> cached rotation of cipherInput
    babyRotationComputed, \* i -> whether babyRotationCache[i] is set
    sortedGiantSteps,     \* the giant steps in processing order
    gIdx,                 \* position of the giant loop (1-based)
    bi,                   \* the baby loop's i
    giantBlockSum,        \* accumulator of the current giant block
    giantBlockFirst,      \* no product accumulated in this block yet
    result,               \* the result accumulator
    first,                \* no block added to result yet
    oplog,                \* history: the HE operations and key loads so far
    resultFile,           \* << >> before the result is saved, then <<result>>
    verified,             \* outcome of verify_matrix_vector_result
    maxError,             \* the maxError it printed, -1 before
    probe,                \* a call of a helper on its own: arguments, outputs
    digits,               \* parallel: EvalFastRotationPrecompute(cipherInput)
    rotationKeys,         \* parallel: the non-zero offsets, in map order
    rotatedCiphersExt,    \* parallel: one rotated ciphertext per rotationKeys[i]
    taskPc,               \* parallel: iteration i -> "todo", "computed", "stored"
    taskLocal,            \* parallel: iteration i -> the value it computed
    accIdx,               \* parallel: position of the accumulation loop
    resultQP,             \* parallel: the accumulator in the extended basis
    argv,                 \* the command line after the program name
    argI,                 \* ArgParser::parse: position of its loop
    args,                 \* ArgParser::args, key -> value
    usagePrinted,         \* whether printUsage ran
    mode,                 \* MeasurementSystem::mode, from --measure
    events                \* the measurement calls and file accesses so far

vars == <<variant, pc, numSlots, matrixDim, matrixDimArg, keyPair,
          secretKeyUses, maxError, M, inputVec, diagonalsUnsigned,
          diagonalsSigned, n1, usedBabySteps, usedGiantSteps,
          preshiftedDiagonals, rotationIndices, genIdx, generated, evalKeys,
          keyFiles, inputFile, cipherInput, precomputedDigits, babyRotationCache,
          babyRotationComputed, sortedGiantSteps, gIdx, bi, giantBlockSum,
          giantBlockFirst, result, first, oplog, resultFile, verified,
          probe, digits, rotationKeys, rotatedCiphersExt, taskPc, taskLocal,
          accIdx, resultQP, argv, argI, args, usagePrinted, mode, events>>

\* The state of single-hoisted-diagonal-method, which the BSGS examples
\* never touch.
parVars   == <<digits, rotationKeys, rotatedCiphersExt, taskPc, taskLocal,
               accIdx, resultQP>>
\* The command line and the parser's state.
argVars   == <<argv, argI, args, usagePrinted>>
\* The measurement mode and the trace of the profiled section.
measureVars == <<mode, events>>
inputVars == <<variant, numSlots, matrixDim, matrixDimArg, probe, parVars,
               argVars, measureVars>>
secretVars == <<keyPair, secretKeyUses>>
dataVars  == <<M, inputVec>>
planVars  == <<diagonalsUnsigned, diagonalsSigned, n1, usedBabySteps,
               usedGiantSteps, preshiftedDiagonals>>
keyVars   == <<rotationIndices, genIdx, generated, evalKeys, keyFiles>>
evalVars  == <<cipherInput, precomputedDigits, babyRotationCache, babyRotationComputed,
               sortedGiantSteps, gIdx, bi, giantBlockSum, giantBlockFirst,
               result, first, oplog>>
outVars   == <<resultFile, verified, maxError>>

Variants == {"bsgs", "hoisted"}

Op(name, arg) == [op |-> name, arg |-> arg]

\* State of main before anything ran.
InitMain ==
    /\ pc = "start"
    /\ M = << >>
    /\ inputVec = << >>
    /\ diagonalsUnsigned = << >>
    /\ diagonalsSigned = << >>
    /\ n1 = 0
    /\ usedBabySteps = {}
    /\ usedGiantSteps = {}
    /\ preshiftedDiagonals = << >>
    /\ rotationIndices = {}
    /\ genIdx = 1
    /\ generated = {}
    /\ evalKeys = {}
    /\ keyFiles = << >>
    /\ inputFile = Null
    /\ cipherInput = Null
    /\ precomputedDigits = Null
    /\ babyRotationCache = << >>
    /\ babyRotationComputed = << >>
    /\ sortedGiantSteps = << >>
    /\ gIdx = 1
    /\ bi = 0
    /\ giantBlockSum = Null
    /\ giantBlockFirst = TRUE
    /\ result = Null
    /\ first = TRUE
    /\ oplog = << >>
    /\ resultFile = << >>
    /\ verified = "none"
    /\ maxError = -1
    /\ keyPair = "none"
    /\ secretKeyUses = {}
    /\ digits = Null
    /\ rotationKeys = << >>
    /\ rotatedCiphersExt = << >>
    /\ taskPc = << >>
    /\ taskLocal = << >>
    /\ accIdx = 1
    /\ resultQP = Null
    /\ argI = 1
    /\ args = [key \in {} |-> << >>]
    /\ usagePrinted = FALSE
    /\ events = << >>

Init ==
    /\ argv = << >>
    /\ variant \in Variants
    /\ numSlots \in 1 .. MaxSlots
    /\ matrixDim \in 0 .. MaxDim
    /\ matrixDimArg = <<0, matrixDim>>
    /\ probe = << >>
    /\ mode = "all"
    /\ InitMain

\* --------------------------------------------------------------- setup
\* The value of an unsigned 32-bit quantity held as <<high, low>> halves,
\* compared with a slot count (which is below 2^16) as unsigned numbers.
WideGreater(w, n) == w[1] > 0 \/ w[2] > n

\* static_cast<int>(x) of a std::size_t below 2^32: the same 32 bits read as a
\* signed number.
StaticCastInt(w) ==
    IF w[1] >= 32768 THEN (w[1] - 65536) * 65536 + w[2]
    ELSE w[1] * 65536 + w[2]

\* The test `matrixDim > numSlots` as each example writes it: on ints after
\* static_cast<int>(matrixDim) (bsgs, hoisted), on unsigned values (simple).
DimExceedsSlots(var, w, n) ==
    IF var = "simple" THEN WideGreater(w, n) ELSE StaticCastInt(w) > n

\* The matrixDim check, then cc->KeyGen().
CheckDim ==
    /\ pc = "start"
    /\ IF DimExceedsSlots(variant, matrixDimArg, numSlots)
       THEN /\ pc' = "exit1"
            /\ UNCHANGED keyPair
       ELSE /\ pc' = "create"
            /\ keyPair' = "generated"
    /\ UNCHANGED <<inputVars, secretKeyUses, dataVars, planVars, keyVars,
                   inputFile, evalVars, outVars>>

\* The cells of the active block that may be non-zero.
BlockCells == {rc \in Slots(numSlots) \X Slots(numSlots) :
                  rc[1] < matrixDim /\ rc[2] < matrixDim}

\* The input vectors explored: entries of the first matrixDim slots, zero after.
InputVectors ==
    { [c \in Slots(numSlots) |-> IF c < matrixDim THEN 4 ^ c ELSE 0] }

\* make_embedded_random_matrix and make_random_input_vector: any values in
\* the block, zero outside it.
CreateMatrixAndVector ==
    /\ pc = "create"
    /\ \E nz \in SUBSET BlockCells :
          /\ Cardinality(nz) <= MaxNonZero
          /\ M' = [rc \in Slots(numSlots) \X Slots(numSlots) |->
                      IF rc \in nz THEN 2 ELSE 0]
    /\ inputVec' \in InputVectors
    /\ pc' = "extract"
    /\ UNCHANGED <<inputVars, secretVars, planVars, keyVars, inputFile, evalVars, outVars>>

\* The conversion loop: diagonalsSigned[normalize(k)] = diagonalsUnsigned[k],
\* in ascending k, a later entry overwriting an earlier one with the same key.
SignedDiagonals(du, n) ==
    LET keys == {normalizeToSignedIndex(k, n) : k \in DOMAIN du}
    IN  [ks \in keys |->
            du[SetMax({k \in DOMAIN du : normalizeToSignedIndex(k, n) = ks})]]

\* Extraction, conversion to signed offsets and the report of the range. With
\* no diagonal the report reads begin() of an empty map: undefined behaviour,
\* the run either goes on or crashes (the hoisted example skips the report
\* when quiet, which is the outcome of going on).
ExtractDiagonals ==
    /\ pc = "extract"
    /\ LET du == extract_generalized_diagonals(M, matrixDim, numSlots)
       IN  /\ diagonalsUnsigned' = du
           /\ diagonalsSigned' = SignedDiagonals(du, numSlots)
           /\ \/ pc' = "plan"
              \/ /\ DOMAIN du = {}
                 /\ pc' = "crashed"
    /\ UNCHANGED <<inputVars, secretVars, dataVars, n1, usedBabySteps, usedGiantSteps,
                   preshiftedDiagonals, keyVars, inputFile, evalVars, outVars>>

\* std::ceil(std::sqrt(numDiagonals)): exact for the counts a run can have.
CeilSqrt(D) == CHOOSE m \in 0 .. D : m * m >= D /\ (m = 0 \/ (m - 1) * (m - 1) < D)

\* Mutant of ChooseN1: the square root rounded down instead of up.
ChooseN1Floor(numDiagonals, n) ==
    LET a == CHOOSE m \in 0 .. numDiagonals :
                 m * m <= numDiagonals /\ (m + 1) * (m + 1) > numDiagonals
        b == IF a < 1 THEN 1 ELSE a
    IN  IF b > n THEN n ELSE b

\* Mutant of ChooseN1: one more than the square root, rounded down.
ChooseN1PlusOne(numDiagonals, n) ==
    LET a == CHOOSE m \in 1 .. (numDiagonals + 1) :
                 (m - 1) * (m - 1) <= numDiagonals /\ m * m > numDiagonals
    IN  IF a > n THEN n ELSE a

ChooseN1(numDiagonals, n) ==
    LET a == CeilSqrt(numDiagonals)
        b == IF a < 1 THEN 1 ELSE a
    IN  IF b > n THEN n ELSE b

\* Mutant of DecompJ: the quotient of the language, truncated toward zero.
DecompJTruncating(k, n1Arg) == CppDiv(k, n1Arg)

DecompJ(k, n1Arg) == floorDivision(k, n1Arg)
DecompI(k, n1Arg) == k - DecompJ(k, n1Arg) * n1Arg

\* Mutant of Preshift: the diagonal shifted by its whole offset k instead of
\* by the giant amount n1 * j.
PreshiftByOffset(diagonal, k, n1Arg, n) ==
    LET s0 == CppMod(k, n)
        shiftAmount == IF s0 < 0 THEN s0 + n ELSE s0
    IN  rotateVectorDown(diagonal, shiftAmount)

\* Mutant of Preshift: the shift amount without the correction of a negative
\* remainder.
PreshiftUncorrected(diagonal, k, n1Arg, n) ==
    rotateVectorDown(diagonal, CppMod(n1Arg * DecompJ(k, n1Arg), n))

\* The pre-shift of one diagonal by (n1 * j) % numSlots, made non-negative.
Preshift(diagonal, k, n1Arg, n) ==
    LET s0 == CppMod(n1Arg * DecompJ(k, n1Arg), n)
        shiftAmount == IF s0 < 0 THEN s0 + n ELSE s0
    IN  rotateVectorDown(diagonal, shiftAmount)

\* Choice of n1, decomposition and pre-shift of every diagonal, and the
\* report of the giant step range, which reads *usedGiantSteps.begin():
\* undefined behaviour when the set is empty.
PlanBSGS ==
    /\ pc = "plan"
    /\ LET nn == ChooseN1(Cardinality(DOMAIN diagonalsSigned), numSlots)
           K  == DOMAIN diagonalsSigned
       IN  /\ n1' = nn
           /\ usedBabySteps' = {DecompI(k, nn) : k \in K}
           /\ usedGiantSteps' = {DecompJ(k, nn) : k \in K}
           /\ preshiftedDiagonals' =
                 [k \in K |-> Preshift(diagonalsSigned[k], k, nn, numSlots)]
           /\ \/ pc' = IF variant = "hoisted" THEN "tempdir" ELSE "collect"
              \/ /\ K = {}
                 /\ pc' = "crashed"
    /\ UNCHANGED <<inputVars, secretVars, dataVars, diagonalsUnsigned, diagonalsSigned,
                   keyVars, inputFile, evalVars, outVars>>

\* TempDirectory tempDir (hoisted example only): creation may fail.
CreateTempDir ==
    /\ pc = "tempdir"
    /\ \/ pc' = "collect"
       \/ pc' = "exit1"
    /\ UNCHANGED <<inputVars, secretVars, dataVars, planVars, keyVars, inputFile,
                   evalVars, outVars>>

\* Mutants of RotationsNeeded: a key for every baby step of the grid; no key
\* for the negative giant steps.
RotationsAllGrid(baby, giant, n1Arg) ==
    (1 .. (n1Arg - 1)) \cup {n1Arg * j : j \in giant \ {0}}

RotationsPositiveOnly(baby, giant, n1Arg) ==
    {i \in baby : i # 0} \cup {n1Arg * j : j \in {g \in giant : g > 0}}

\* The rotation amounts collected from the used baby and giant steps.
RotationsNeeded(baby, giant, n1Arg) ==
    {i \in baby : i # 0} \cup {n1Arg * j : j \in {g \in giant : g # 0}}

CollectRotations ==
    /\ pc = "collect"
    /\ rotationIndices' = RotationsNeeded(usedBabySteps, usedGiantSteps, n1)
    /\ pc' = "keygen"
    /\ UNCHANGED <<inputVars, secretVars, dataVars, planVars, genIdx, generated, evalKeys,
                   keyFiles, inputFile, evalVars, outVars>>

\* The amount the key generation loop is at.
CurRot == Ascending(rotationIndices)[genIdx]

\* cc->EvalRotateKeyGen(keyPair.secretKey, {rot}).
GenRotationKey ==
    /\ pc = "keygen"
    /\ genIdx <= Cardinality(rotationIndices)
    /\ evalKeys' = evalKeys \cup {CurRot}
    /\ generated' = generated \cup {CurRot}
    /\ secretKeyUses' = secretKeyUses \cup {"EvalRotateKeyGen"}
    /\ pc' = "serialize_key"
    /\ UNCHANGED <<inputVars, keyPair, dataVars, planVars, rotationIndices,
                   genIdx, keyFiles, inputFile, evalVars, outVars>>

\* SerializeEvalAutomorphismKey writes every key the context holds.
SerializeKey ==
    /\ pc = "serialize_key"
    /\ \/ /\ keyFiles' = [a \in DOMAIN keyFiles \cup {CurRot} |->
                             IF a = CurRot THEN evalKeys ELSE keyFiles[a]]
          /\ pc' = "clear_key"
       \/ /\ pc' = "exit1"
          /\ UNCHANGED keyFiles
    /\ UNCHANGED <<inputVars, secretVars, dataVars, planVars, rotationIndices, genIdx,
                   generated, evalKeys, inputFile, evalVars, outVars>>

\* cc->ClearEvalAutomorphismKeys() at the end of the loop body.
ClearKey ==
    /\ pc = "clear_key"
    /\ evalKeys' = {}
    /\ genIdx' = genIdx + 1
    /\ pc' = "keygen"
    /\ UNCHANGED <<inputVars, secretVars, dataVars, planVars, rotationIndices, generated,
                   keyFiles, inputFile, evalVars, outVars>>

\* Encryption of the input and its serialization, which may fail.
EncryptInput ==
    /\ pc = "keygen"
    /\ genIdx > Cardinality(rotationIndices)
    /\ \/ /\ inputFile' = inputVec
          /\ pc' = "eval_start"
       \/ /\ pc' = "exit1"
          /\ UNCHANGED inputFile
    /\ UNCHANGED <<inputVars, secretVars, dataVars, planVars, keyVars, evalVars, outVars>>

\* The environment: a persisted key file disappears (or becomes unreadable)
\* between setup and evaluation. One lost file gives every failure a run can
\* meet: the run stops at the first load that fails.
EnvRemoveKeyFile ==
    /\ pc = "eval_start"
    /\ DOMAIN keyFiles = rotationIndices
    /\ \E a \in DOMAIN keyFiles :
          keyFiles' = [b \in DOMAIN keyFiles \ {a} |-> keyFiles[b]]
    /\ UNCHANGED <<pc, inputVars, secretVars, dataVars, planVars, rotationIndices, genIdx,
                   generated, evalKeys, inputFile, evalVars, outVars>>


\* ---------------------------------------------------------- evaluation
\* Mutant of SortedSteps: one giant step more than the plan uses.
SortedStepsOneMore(S) == IF S = {} THEN << >> ELSE Ascending(S \cup {SetMax(S) + 1})

\* std::sort of the used giant steps.
SortedSteps(S) == Ascending(S)

\* Mutant of LoadInput: the giant steps are visited in the order of an
\* unordered container, any order.
LoadInputUnordered ==
    /\ pc = "eval_start"
    /\ \/ /\ cipherInput' = inputFile
          /\ precomputedDigits' = IF variant = "hoisted"
                                  THEN EvalFastRotationPrecompute(inputFile)
                                  ELSE Null
          /\ babyRotationCache' =
                [i \in 0 .. (n1 - 1) |-> IF i = 0 THEN inputFile ELSE Null]
          /\ babyRotationComputed' = [i \in 0 .. (n1 - 1) |-> i = 0]
          /\ sortedGiantSteps' \in
                {q \in [1 .. Cardinality(usedGiantSteps) -> usedGiantSteps] :
                    \A x, y \in DOMAIN q : x # y => q[x] # q[y]}
          /\ gIdx' = 1
          /\ result' = Null
          /\ first' = TRUE
          /\ pc' = "giant"
       \/ /\ pc' = "exit1"
          /\ UNCHANGED <<cipherInput, precomputedDigits, babyRotationCache, babyRotationComputed,
                         sortedGiantSteps, gIdx, result, first>>
    /\ UNCHANGED <<inputVars, secretVars, dataVars, planVars, keyVars, inputFile, bi,
                   giantBlockSum, giantBlockFirst, oplog, outVars>>

\* g_dram_counter.start(), the load of the input ciphertext (which may fail),
\* PIN_MARKER_START (and, hoisted, EvalFastRotationPrecompute), the seeding of
\* the baby rotation cache with the identity and the sorting of the giant steps.
LoadInput ==
    /\ pc = "eval_start"
    /\ \/ /\ cipherInput' = inputFile
          /\ precomputedDigits' = IF variant = "hoisted"
                                  THEN EvalFastRotationPrecompute(inputFile)
                                  ELSE Null
          /\ babyRotationCache' =
                [i \in 0 .. (n1 - 1) |-> IF i = 0 THEN inputFile ELSE Null]
          /\ babyRotationComputed' = [i \in 0 .. (n1 - 1) |-> i = 0]
          /\ sortedGiantSteps' = SortedSteps(usedGiantSteps)
          /\ gIdx' = 1
          /\ result' = Null
          /\ first' = TRUE
          /\ pc' = "giant"
       \/ /\ pc' = "exit1"
          /\ UNCHANGED <<cipherInput, precomputedDigits, babyRotationCache, babyRotationComputed,
                         sortedGiantSteps, gIdx, result, first>>
    /\ UNCHANGED <<inputVars, secretVars, dataVars, planVars, keyVars, inputFile, bi,
                   giantBlockSum, giantBlockFirst, oplog, outVars>>

CurJ == sortedGiantSteps[gIdx]
\* Mutant of CurK: the baby indices of a block taken from the top down.
CurKDescending == CurJ * n1 + (n1 - 1 - bi)

CurK == CurJ * n1 + bi
DiagonalExists == CurK \in DOMAIN preshiftedDiagonals
\* Mutant of NeedsRotation: the computed flag is not consulted.
NeedsRotationAlways == bi # 0

NeedsRotation == bi # 0 /\ ~babyRotationComputed[bi]

\* Head of the giant loop: the next giant step, an empty block accumulator.
GiantHead ==
    /\ pc = "giant"
    /\ gIdx <= Len(sortedGiantSteps)
    /\ giantBlockSum' = Null
    /\ giantBlockFirst' = TRUE
    /\ bi' = 0
    /\ pc' = "baby"
    /\ UNCHANGED <<inputVars, secretVars, dataVars, planVars, keyVars, inputFile,
                   cipherInput, precomputedDigits, babyRotationCache, babyRotationComputed,
                   sortedGiantSteps, gIdx, result, first, oplog, outVars>>

\* `continue` of the baby loop: no diagonal at k = j * n1 + i.
BabySkip ==
    /\ pc = "baby"
    /\ bi < n1
    /\ ~DiagonalExists
    /\ bi' = bi + 1
    /\ UNCHANGED <<pc, inputVars, secretVars, dataVars, planVars, keyVars, inputFile,
                   cipherInput, precomputedDigits, babyRotationCache, babyRotationComputed,
                   sortedGiantSteps, gIdx, giantBlockSum, giantBlockFirst,
                   result, first, oplog, outVars>>

\* The keys a key file holds, none when the file is missing.
FileKeys(amount) == IF amount \in DOMAIN keyFiles THEN keyFiles[amount] ELSE {}

\* Mutant of BabyLoadKey: a failed load is logged and the unrotated input is
\* used in place of the rotation.
BabyLoadKeySubstitute ==
    /\ pc = "baby"
    /\ bi < n1
    /\ DiagonalExists
    /\ NeedsRotation
    /\ \/ /\ bi \in DOMAIN keyFiles
          /\ evalKeys' = evalKeys \cup FileKeys(bi)
          /\ oplog' = Append(oplog, Op("load", bi))
          /\ pc' = "baby_rotate"
          /\ UNCHANGED <<babyRotationCache, babyRotationComputed>>
       \/ /\ bi \notin DOMAIN keyFiles
          /\ oplog' = Append(oplog, Op("loadfail", bi))
          /\ babyRotationCache' = [babyRotationCache EXCEPT ![bi] = cipherInput]
          /\ babyRotationComputed' = [babyRotationComputed EXCEPT ![bi] = TRUE]
          /\ pc' = "baby"
          /\ UNCHANGED evalKeys
    /\ UNCHANGED <<inputVars, secretVars, dataVars, planVars, rotationIndices, genIdx,
                   generated, keyFiles, inputFile, cipherInput, precomputedDigits,
                   sortedGiantSteps, gIdx, bi, giantBlockSum, giantBlockFirst,
                   result, first, outVars>>

\* Mutant of BabyLoadKey: a missing key is generated again from the secret
\* key and written to the store during the evaluation.
BabyLoadKeyRegenerate ==
    /\ pc = "baby"
    /\ bi < n1
    /\ DiagonalExists
    /\ NeedsRotation
    /\ \/ /\ bi \in DOMAIN keyFiles
          /\ evalKeys' = evalKeys \cup FileKeys(bi)
          /\ oplog' = Append(oplog, Op("load", bi))
          /\ pc' = "baby_rotate"
          /\ UNCHANGED <<generated, keyFiles, secretKeyUses>>
       \/ /\ bi \notin DOMAIN keyFiles
          /\ evalKeys' = {bi}
          /\ generated' = generated \cup {bi}
          /\ keyFiles' = [a \in DOMAIN keyFiles \cup {bi} |->
                             IF a = bi THEN {bi} ELSE keyFiles[a]]
          /\ secretKeyUses' = secretKeyUses \cup {"EvalRotateKeyGenAgain"}
          /\ oplog' = Append(oplog, Op("load", bi))
          /\ pc' = "baby_rotate"
    /\ UNCHANGED <<inputVars, keyPair, dataVars, planVars, rotationIndices,
                   genIdx, inputFile, cipherInput, precomputedDigits, babyRotationCache,
                   babyRotationComputed, sortedGiantSteps, gIdx, bi,
                   giantBlockSum, giantBlockFirst, result, first, outVars>>

\* getBabyRotation, first part: DeserializeEvalAutomorphismKey of the file of
\* amount i; when it fails the lambda throws std::runtime_error, which main
\* does not catch.
BabyLoadKey ==
    /\ pc = "baby"
    /\ bi < n1
    /\ DiagonalExists
    /\ NeedsRotation
    /\ \/ /\ bi \in DOMAIN keyFiles
          /\ evalKeys' = evalKeys \cup FileKeys(bi)
          /\ oplog' = Append(oplog, Op("load", bi))
          /\ pc' = "baby_rotate"
       \/ /\ bi \notin DOMAIN keyFiles
          /\ oplog' = Append(oplog, Op("loadfail", bi))
          /\ pc' = "terminated"
          /\ UNCHANGED evalKeys
    /\ UNCHANGED <<inputVars, secretVars, dataVars, planVars, rotationIndices, genIdx,
                   generated, keyFiles, inputFile, cipherInput, precomputedDigits,
                   babyRotationCache, babyRotationComputed, sortedGiantSteps,
                   gIdx, bi, giantBlockSum, giantBlockFirst, result, first,
                   outVars>>

\* getBabyRotation, second part: EvalRotate (bsgs) or EvalFastRotation
\* (hoisted) of the input by i; the library throws without the key.
BabyRotate ==
    /\ pc = "baby_rotate"
    /\ IF bi \in evalKeys
       THEN /\ babyRotationCache' =
                  [babyRotationCache EXCEPT ![bi] =
                      IF variant = "hoisted"
                      THEN EvalFastRotation(cipherInput, bi, precomputedDigits,
                                            numSlots)
                      ELSE EvalRotate(cipherInput, bi, numSlots)]
            /\ oplog' = Append(oplog, Op("rotate", bi))
            /\ pc' = "baby_clear"
       ELSE /\ pc' = "terminated"
            /\ UNCHANGED <<babyRotationCache, oplog>>
    /\ UNCHANGED <<inputVars, secretVars, dataVars, planVars, keyVars, inputFile,
                   cipherInput, precomputedDigits, babyRotationComputed, sortedGiantSteps, gIdx,
                   bi, giantBlockSum, giantBlockFirst, result, first, outVars>>

\* Mutant of BabyClear: the key stays in the context.
BabyClearNever ==
    /\ pc = "baby_clear"
    /\ babyRotationComputed' = [babyRotationComputed EXCEPT ![bi] = TRUE]
    /\ pc' = "baby"
    /\ UNCHANGED <<inputVars, secretVars, dataVars, planVars, keyVars, inputFile,
                   cipherInput, precomputedDigits, babyRotationCache, sortedGiantSteps, gIdx, bi,
                   giantBlockSum, giantBlockFirst, result, first, oplog,
                   outVars>>

\* getBabyRotation, last part: ClearEvalAutomorphismKeys and the computed flag.
BabyClear ==
    /\ pc = "baby_clear"
    /\ evalKeys' = {}
    /\ babyRotationComputed' = [babyRotationComputed EXCEPT ![bi] = TRUE]
    /\ pc' = "baby"
    /\ UNCHANGED <<inputVars, secretVars, dataVars, planVars, rotationIndices, genIdx,
                   generated, keyFiles, inputFile, cipherInput, precomputedDigits,
                   babyRotationCache, sortedGiantSteps, gIdx, bi,
                   giantBlockSum, giantBlockFirst, result, first, oplog,
                   outVars>>

\* EvalMult of the baby rotation with the pre-shifted diagonal of k and the
\* accumulation into the block sum.
MultAccumulate ==
    /\ pc = "baby"
    /\ bi < n1
    /\ DiagonalExists
    /\ ~NeedsRotation
    /\ LET babyRotated == IF bi = 0 THEN cipherInput ELSE babyRotationCache[bi]
           partial == EvalMult(babyRotated, preshiftedDiagonals[CurK], numSlots)
       IN  IF giantBlockFirst
           THEN /\ giantBlockSum' = partial
                /\ oplog' = Append(oplog, Op("mult", CurK))
           ELSE /\ giantBlockSum' = EvalAdd(giantBlockSum, partial, numSlots)
                /\ oplog' = oplog \o <<Op("mult", CurK), Op("add", CurK)>>
    /\ giantBlockFirst' = FALSE
    /\ bi' = bi + 1
    /\ UNCHANGED <<pc, inputVars, secretVars, dataVars, planVars, keyVars, inputFile,
                   cipherInput, precomputedDigits, babyRotationCache, babyRotationComputed,
                   sortedGiantSteps, gIdx, result, first, outVars>>

\* Load of the key of the giant rotation n1 * j of a non-empty block, j # 0;
\* main returns 1 when it fails.
GiantLoadKey ==
    /\ pc = "baby"
    /\ bi >= n1
    /\ ~giantBlockFirst
    /\ CurJ # 0
    /\ \/ /\ n1 * CurJ \in DOMAIN keyFiles
          /\ evalKeys' = evalKeys \cup FileKeys(n1 * CurJ)
          /\ oplog' = Append(oplog, Op("load", n1 * CurJ))
          /\ pc' = "giant_rotate"
       \/ /\ n1 * CurJ \notin DOMAIN keyFiles
          /\ oplog' = Append(oplog, Op("loadfail", n1 * CurJ))
          /\ pc' = "exit1"
          /\ UNCHANGED evalKeys
    /\ UNCHANGED <<inputVars, secretVars, dataVars, planVars, rotationIndices, genIdx,
                   generated, keyFiles, inputFile, cipherInput, precomputedDigits,
                   babyRotationCache, babyRotationComputed, sortedGiantSteps,
                   gIdx, bi, giantBlockSum, giantBlockFirst, result, first,
                   outVars>>

\* EvalRotate of the block sum by n1 * j.
GiantRotate ==
    /\ pc = "giant_rotate"
    /\ IF n1 * CurJ \in evalKeys
       THEN /\ giantBlockSum' = EvalRotate(giantBlockSum, n1 * CurJ, numSlots)
            /\ oplog' = Append(oplog, Op("rotate", n1 * CurJ))
            /\ pc' = "giant_clear"
       ELSE /\ pc' = "terminated"
            /\ UNCHANGED <<giantBlockSum, oplog>>
    /\ UNCHANGED <<inputVars, secretVars, dataVars, planVars, keyVars, inputFile,
                   cipherInput, precomputedDigits, babyRotationCache, babyRotationComputed,
                   sortedGiantSteps, gIdx, bi, giantBlockFirst, result, first,
                   outVars>>

\* ClearEvalAutomorphismKeys after the giant rotation.
GiantClear ==
    /\ pc = "giant_clear"
    /\ evalKeys' = {}
    /\ pc' = "combine"
    /\ UNCHANGED <<inputVars, secretVars, dataVars, planVars, rotationIndices, genIdx,
                   generated, keyFiles, inputFile, evalVars, outVars>>

\* End of the giant loop body: an empty block is skipped, any other block is
\* assigned (first) or added to the result. Reached from the baby loop when
\* the block is empty or j = 0, and after the giant rotation otherwise.
Combine ==
    /\ \/ pc = "combine"
       \/ /\ pc = "baby"
          /\ bi >= n1
          /\ (giantBlockFirst \/ CurJ = 0)
    /\ IF giantBlockFirst
       THEN UNCHANGED <<result, first, oplog>>
       ELSE /\ result' = IF first THEN giantBlockSum
                         ELSE EvalAdd(result, giantBlockSum, numSlots)
            /\ first' = FALSE
            /\ oplog' = IF first THEN oplog
                        ELSE Append(oplog, Op("addblock", CurJ))
    /\ gIdx' = gIdx + 1
    /\ pc' = "giant"
    /\ UNCHANGED <<inputVars, secretVars, dataVars, planVars, keyVars, inputFile,
                   cipherInput, precomputedDigits, babyRotationCache, babyRotationComputed,
                   sortedGiantSteps, bi, giantBlockSum, giantBlockFirst,
                   outVars>>

\* After the giant loop: cc->Rescale(result) and PIN_MARKER_END in the bsgs
\* example (Rescale rejects an unassigned ciphertext with an exception nobody
\* catches), measurement.endPIN() alone in the hoisted one.
FinishLoop ==
    /\ pc = "giant"
    /\ gIdx > Len(sortedGiantSteps)
    /\ IF variant = "bsgs"
       THEN IF result = Null
            THEN /\ pc' = "terminated"
                 /\ UNCHANGED oplog
            ELSE /\ pc' = "save"
                 /\ oplog' = Append(oplog, Op("rescale", 0))
       ELSE /\ pc' = "save"
            /\ UNCHANGED oplog
    /\ UNCHANGED <<inputVars, secretVars, dataVars, planVars, keyVars, inputFile,
                   cipherInput, precomputedDigits, babyRotationCache, babyRotationComputed,
                   sortedGiantSteps, gIdx, bi, giantBlockSum, giantBlockFirst,
                   result, first, outVars>>

\* Serial::SerializeToFile of the result, which may fail, then the stop of
\* the DRAM measurement.
SaveResult ==
    /\ pc = "save"
    /\ \/ /\ resultFile' = <<result>>
          /\ pc' = "verify"
       \/ /\ pc' = "exit1"
          /\ UNCHANGED resultFile
    /\ UNCHANGED <<inputVars, secretVars, dataVars, planVars, keyVars, inputFile,
                   evalVars, verified, maxError>>

\* The default of the tolerance parameter, 1e-3: the unit in which the
\* decrypted values, the errors and the tolerances are counted.
DefaultTolerance == 1

\* A bool passed where a double is expected: false is 0.0, true is 1.0.
BoolAsDouble(b) == IF b THEN 1000 * DefaultTolerance ELSE 0

\* The tolerance verify_matrix_vector_result runs with: bsgs passes four
\* arguments, hoisted passes `quiet` as the fifth.
ToleranceArgument(var, quiet) ==
    IF var = "hoisted" THEN BoolAsDouble(quiet) ELSE DefaultTolerance

\* verify_matrix_vector_result: the outcome printed and the maxError printed
\* with it.
verify_matrix_vector_result(resultVec, Mx, input, actualDim, tolerance) ==
    LET n        == Cardinality(DOMAIN resultVec)
        expected == ExpectedProduct(Mx, input, actualDim, n)
        error(i) == Abs(resultVec[i] - expected[i])
        rows     == {i \in Slots(n) : i < actualDim}
    IN  [correct  |-> \A i \in rows : ~(error(i) > tolerance),
         maxError |-> IF rows = {} THEN 0 ELSE SetMax({error(i) : i \in rows})]

\* Decryption and verify_matrix_vector_result (skipped with --skip-verify in
\* the hoisted example); Decrypt rejects an unassigned ciphertext with an
\* exception nobody catches. The decrypted values carry the approximation
\* error of the scheme. The verification outcome never changes the exit status.
Verify ==
    /\ pc = "verify"
    /\ \E skipVerify \in IF variant = "hoisted" THEN BOOLEAN ELSE {FALSE},
          quiet \in IF variant = "hoisted" THEN BOOLEAN ELSE {FALSE},
          noise \in 0 .. MaxNoise :
          IF skipVerify
          THEN /\ pc' = "exit0"
               /\ UNCHANGED <<verified, maxError, secretKeyUses>>
          ELSE /\ secretKeyUses' = secretKeyUses \cup {"Decrypt"}
               /\ IF result = Null
                  THEN /\ pc' = "terminated"
                       /\ UNCHANGED <<verified, maxError>>
                  ELSE LET resultVec == [r \in Slots(numSlots) |-> result[r] + noise]
                           outcome == verify_matrix_vector_result(
                                          resultVec, M, inputVec, matrixDim,
                                          ToleranceArgument(variant, quiet))
                       IN  /\ verified' = IF outcome.correct THEN "pass" ELSE "fail"
                           /\ maxError' = outcome.maxError
                           /\ pc' = "exit0"
    /\ UNCHANGED <<inputVars, keyPair, dataVars, planVars, keyVars, inputFile,
                   evalVars, resultFile>>

\* ------------------------------------------------------- specification
Next ==
    \/ CheckDim
    \/ CreateMatrixAndVector
    \/ ExtractDiagonals
    \/ PlanBSGS
    \/ CreateTempDir
    \/ CollectRotations
    \/ GenRotationKey
    \/ SerializeKey
    \/ ClearKey
    \/ EncryptInput
    \/ EnvRemoveKeyFile
    \/ LoadInput
    \/ GiantHead
    \/ BabySkip
    \/ BabyLoadKey
    \/ BabyRotate
    \/ BabyClear
    \/ MultAccumulate
    \/ GiantLoadKey
    \/ GiantRotate
    \/ GiantClear
    \/ Combine
    \/ FinishLoop
    \/ SaveResult
    \/ Verify

Spec == Init /\ [][Next]_vars

\* main is one sequential thread: a step that can be taken is taken.
SpecLive == Spec /\ WF_vars(Next)


\* ------------------------------------------- the helpers on their own
\* main does not run: only the helper calls below do.
InitHelpers ==
    /\ argv = << >>
    /\ variant = "bsgs"
    /\ numSlots = 1
    /\ matrixDim = 0
    /\ matrixDimArg = <<0, 0>>
    /\ probe = [fn |-> "none", a |-> 0, b |-> 1, out |-> << >>]
    /\ mode = "all"
    /\ InitMain

mainVars == <<variant, pc, numSlots, matrixDim, matrixDimArg, parVars, argVars,
              measureVars, secretVars,
              dataVars, planVars, keyVars, inputFile, evalVars, outVars>>

\* floorDivision(a, b) for any a and any b # 0.
CallFloorDivision ==
    /\ probe.fn = "none"
    /\ \E a \in (-MaxArg) .. MaxArg, b \in ((-MaxArg) .. MaxArg) \ {0} :
          probe' = [fn |-> "floorDivision", a |-> a, b |-> b,
                    out |-> <<floorDivision(a, b)>>]
    /\ UNCHANGED mainVars

\* normalizeToSignedIndex(k, numSlots) for any k and any numSlots >= 1.
CallNormalize ==
    /\ probe.fn = "none"
    /\ \E k \in (-MaxArg) .. MaxArg, n \in 1 .. MaxArg :
          probe' = [fn |-> "normalizeToSignedIndex", a |-> k, b |-> n,
                    out |-> <<normalizeToSignedIndex(k, n)>>]
    /\ UNCHANGED mainVars

\* normalizeToSignedIndex applied to its own result.
CallNormalizeAgain ==
    /\ probe.fn = "normalizeToSignedIndex"
    /\ Len(probe.out) = 1
    /\ probe' = [probe EXCEPT
                   !.out = Append(@, normalizeToSignedIndex(probe.out[1], probe.b))]
    /\ UNCHANGED mainVars

\* The signed conversion loop of main on any set of unsigned offsets, each
\* diagonal tagged with the offset it was extracted at.
CallSignedDiagonals ==
    /\ probe.fn = "none"
    /\ \E n \in 1 .. MaxConvSlots, K \in SUBSET (0 .. (MaxConvSlots - 1)) :
          /\ K \subseteq Slots(n)
          /\ probe' = [fn |-> "SignedDiagonals", a |-> K, b |-> n,
                       out |-> <<SignedDiagonals([k \in K |-> <<k>>], n)>>]
    /\ UNCHANGED mainVars

\* The planning of main (extraction, signed conversion, n1, decomposition,
\* rotation amounts) on the dense d x d block embedded in n slots, for the
\* slot counts around 2 * d.
CallPlanDense ==
    /\ probe.fn = "none"
    /\ \E d \in 1 .. MaxDenseDim, n \in 1 .. (2 * MaxDenseDim + 1) :
          /\ d <= n /\ 2 * d - 1 <= n /\ n <= 2 * d + 1
          /\ LET Mx == [rc \in Slots(n) \X Slots(n) |->
                          IF rc[1] < d /\ rc[2] < d THEN 2 ELSE 0]
                 du == extract_generalized_diagonals(Mx, d, n)
                 K  == DOMAIN SignedDiagonals(du, n)
                 nn == ChooseN1(Cardinality(K), n)
                 baby  == {DecompI(k, nn) : k \in K}
                 giant == {DecompJ(k, nn) : k \in K}
             IN  probe' = [fn |-> "plan", a |-> d, b |-> n,
                           out |-> <<[offsets |-> K, n1 |-> nn,
                                      usedBabySteps |-> baby,
                                      usedGiantSteps |-> giant,
                                      rotationIndices |->
                                          RotationsNeeded(baby, giant, nn)]>>]
    /\ UNCHANGED mainVars

\* The choice of n1 for any count of diagonals and any slot count.
CallChooseN1 ==
    /\ probe.fn = "none"
    /\ \E D \in 0 .. MaxDiagonals, n \in 1 .. MaxDiagonals :
          probe' = [fn |-> "ChooseN1", a |-> D, b |-> n,
                    out |-> <<ChooseN1(D, n)>>]
    /\ UNCHANGED mainVars

\* The entries explored by the call of extract_generalized_diagonals on its
\* own: zero, a non-zero value not above the threshold, and a negative value
\* above it in magnitude.
MaxExtractSlots == 3
MaxExtractDim == 2
ExtractEntries == {0, NonZeroThreshold, -2 * NonZeroThreshold}

\* extract_generalized_diagonals(M, d) on any n x n matrix that is zero
\* outside its d x d block.
CallExtract ==
    /\ probe.fn = "none"
    /\ \E n \in 1 .. MaxExtractSlots, d \in 0 .. MaxExtractDim :
          /\ d <= n
          /\ \E block \in [Slots(d) \X Slots(d) -> ExtractEntries] :
                LET Mx == [rc \in Slots(n) \X Slots(n) |->
                              IF rc[1] < d /\ rc[2] < d THEN block[rc] ELSE 0]
                IN  probe' = [fn |-> "extract", a |-> d, b |-> n,
                              out |-> <<Mx, extract_generalized_diagonals(Mx, d, n)>>]
    /\ UNCHANGED mainVars

\* The longest vector handed to rotateVectorDown on its own.
MaxVecLen == 4

\* rotateVectorDown(vec, positions) on any vector of 0s and 1s, and on the
\* vector of distinct entries, with any positions.
CallRotateVectorDown ==
    /\ probe.fn = "none"
    /\ \E n \in 1 .. MaxVecLen, positions \in (-MaxArg) .. MaxArg :
          \E vec \in [Slots(n) -> {0, 1}] \cup {[i \in Slots(n) |-> i + 2]} :
              probe' = [fn |-> "rotateVectorDown", a |-> positions, b |-> n,
                        out |-> <<vec, rotateVectorDown(vec, positions)>>]
    /\ UNCHANGED mainVars

NextHelpers ==
    \/ CallExtract
    \/ CallRotateVectorDown
    \/ CallFloorDivision
    \/ CallNormalize
    \/ CallNormalizeAgain
    \/ CallSignedDiagonals
    \/ CallPlanDense
    \/ CallChooseN1

SpecHelpers == InitHelpers /\ [][NextHelpers]_vars


\* --------------------------------------- the start of main on its own
\* The examples with a matrixDim check; "simple" is simple-diagonal-method.
StartupExamples == {"bsgs", "hoisted", "simple"}

\* The dimensions explored: around the slot count, and for the examples that
\* read --matrix-dim with getUInt32 also 2^31 - 1, 2^31 and 2^32 - 1.
RequestedDims(var) ==
    {<<0, lo>> : lo \in 0 .. (MaxSlots + 1)}
        \cup (IF var = "bsgs" THEN {}
              ELSE {<<32767, 65535>>, <<32768, 0>>, <<65535, 65535>>})

InitStartup ==
    /\ argv = << >>
    /\ variant \in StartupExamples
    /\ numSlots \in 1 .. MaxSlots
    /\ matrixDimArg \in RequestedDims(variant)
    /\ matrixDim = IF matrixDimArg[1] = 0 THEN matrixDimArg[2] ELSE 0
    /\ probe = << >>
    /\ mode = "all"
    /\ InitMain

\* make_embedded_random_matrix(matrixDim, numSlots): with matrixDim above
\* numSlots the fill loop writes outside the numSlots x numSlots buffer, which
\* is undefined behaviour: the run crashes or goes on.
StartupCreateMatrix ==
    /\ pc = "create"
    /\ \/ pc' = "extract"
       \/ /\ WideGreater(matrixDimArg, numSlots)
          /\ pc' = "crashed"
    /\ UNCHANGED <<inputVars, secretVars, dataVars, planVars, keyVars,
                   inputFile, evalVars, outVars>>

NextStartup ==
    \/ CheckDim
    \/ StartupCreateMatrix

SpecStartup == InitStartup /\ [][NextStartup]_vars


\* ------------------------------- single-hoisted-diagonal-method (parallel)
\* A ciphertext of this example is held in two parts, the element c0 and the
\* contribution c1s of the element c1 under the secret key; it decrypts to
\* c0 + c1s. ext tells whether it lives in the extended basis QP.
Parts(c0, c1s, ext) == [c0 |-> c0, c1s |-> c1s, ext |-> ext]
Decrypted(ct) == [r \in DOMAIN ct.c0 |-> ct.c0[r] + ct.c1s[r]]

\* The randomness of cc->Encrypt: what the c1 element contributes.
EncryptionMasks(n) == {[r \in Slots(n) |-> 1], [r \in Slots(n) |-> r + 2]}

\* inputVec[i] = 0.1 * (i + 1) on the first matrixDim slots, in tenths.
TestInputVec(actualDim, n) == [i \in Slots(n) |-> IF i < actualDim THEN i + 1 ELSE 0]

\* EvalFastRotationPrecompute on a two-part ciphertext: the digits of c1.
PrecomputeDigits(ct) == [digitsOf |-> ct.c1s]

\* EvalFastRotationExt(ct, k, digits, addFirst): the key-switched rotation of
\* c1 from the digits, in the extended basis; c0 is rotated in only when
\* addFirst is set.
EvalFastRotationExt(ct, k, dg, addFirst, n) ==
    Parts(IF addFirst THEN EvalRotate(ct.c0, k, n) ELSE [r \in Slots(n) |-> 0],
          EvalRotate(dg.digitsOf, k, n), TRUE)

\* EvalMult and EvalAdd on two-part ciphertexts, and KeySwitchDown from QP
\* to Q.
EvalMultParts(ct, pt, n) == Parts(EvalMult(ct.c0, pt, n), EvalMult(ct.c1s, pt, n), ct.ext)
EvalAddParts(a, b, n) == Parts(EvalAdd(a.c0, b.c0, n), EvalAdd(a.c1s, b.c1s, n), a.ext)
KeySwitchDown(ct) == Parts(ct.c0, ct.c1s, FALSE)

\* Mutant of TaskSlot: the next free position, as a push_back into a shared
\* vector would give.
TaskSlotShared(i, stored) == stored + 1

\* The element of rotatedCiphersExt that iteration i assigns.
TaskSlot(i, stored) == i

Tasks == 1 .. Len(rotationKeys)
StoredCount == Cardinality({i \in Tasks : taskPc[i] = "stored"})

bsgsOnlyVars == <<diagonalsSigned, n1, usedBabySteps, usedGiantSteps,
                  preshiftedDiagonals, genIdx, generated, evalKeys, keyFiles,
                  inputFile, precomputedDigits, babyRotationCache,
                  babyRotationComputed, sortedGiantSteps, gIdx, bi,
                  giantBlockSum, giantBlockFirst, oplog, outVars>>
parInputVars == <<variant, numSlots, matrixDim, matrixDimArg, probe, argVars,
                  measureVars>>
parSetupVars == <<M, inputVec, diagonalsUnsigned, rotationIndices, keyPair,
                  secretKeyUses, cipherInput>>

InitParallel ==
    /\ argv = << >>
    /\ variant = "parallel"
    /\ numSlots \in 1 .. MaxSlots
    /\ matrixDim \in 0 .. MaxDim
    /\ matrixDimArg = <<0, matrixDim>>
    /\ probe = << >>
    /\ mode = "all"
    /\ InitMain

\* Lines 62-171: the dimension check, KeyGen, the matrix and the input, the
\* diagonals, one EvalRotateKeyGen for all non-zero offsets, encryption, and
\* the save and reload of keys and input (a failed save or load returns 1).
ParSetup ==
    /\ pc = "start"
    /\ \/ /\ matrixDim > numSlots
          /\ pc' = "exit1"
          /\ UNCHANGED parSetupVars
       \/ /\ matrixDim <= numSlots
          /\ \E nz \in SUBSET BlockCells, mask \in EncryptionMasks(numSlots) :
                LET Mx == [rc \in Slots(numSlots) \X Slots(numSlots) |->
                              IF rc \in nz THEN 2 ELSE 0]
                    dd == extract_generalized_diagonals(Mx, matrixDim, numSlots)
                    v  == TestInputVec(matrixDim, numSlots)
                IN  /\ Cardinality(nz) <= MaxNonZero
                    /\ M' = Mx
                    /\ inputVec' = v
                    /\ diagonalsUnsigned' = dd
                    /\ rotationIndices' = DOMAIN dd \ {0}
                    /\ keyPair' = "generated"
                    /\ secretKeyUses' = {"EvalRotateKeyGen"}
                    /\ \/ /\ cipherInput' =
                                Parts([r \in Slots(numSlots) |-> v[r] - mask[r]],
                                      mask, FALSE)
                          /\ pc' = "precompute"
                       \/ /\ cipherInput' = Null
                          /\ pc' = "exit1"
    /\ UNCHANGED <<parInputVars, parVars, bsgsOnlyVars, result, first>>

\* Lines 184-197: the digits, hasMainDiagonal, rotationKeys in map order and
\* the vector of rotationKeys.size() null ciphertexts.
ParPrecompute ==
    /\ pc = "precompute"
    /\ digits' = PrecomputeDigits(cipherInput)
    /\ rotationKeys' = Ascending(DOMAIN diagonalsUnsigned \ {0})
    /\ rotatedCiphersExt' = [i \in 1 .. Cardinality(DOMAIN diagonalsUnsigned \ {0}) |-> Null]
    /\ taskPc' = [i \in 1 .. Cardinality(DOMAIN diagonalsUnsigned \ {0}) |-> "todo"]
    /\ taskLocal' = [i \in 1 .. Cardinality(DOMAIN diagonalsUnsigned \ {0}) |-> Null]
    /\ pc' = "fork"
    /\ UNCHANGED <<parInputVars, parSetupVars, bsgsOnlyVars, accIdx, resultQP,
                   result, first>>

\* Iteration i of the omp parallel for, on whichever thread runs it: the call
\* of EvalFastRotationExt on the shared cipherInput and digits.
TaskRotate(i) ==
    /\ pc = "fork"
    /\ taskPc[i] = "todo"
    /\ taskLocal' = [taskLocal EXCEPT
                        ![i] = EvalFastRotationExt(cipherInput, rotationKeys[i],
                                                   digits, FALSE, numSlots)]
    /\ taskPc' = [taskPc EXCEPT ![i] = "computed"]
    /\ UNCHANGED <<parInputVars, parSetupVars, bsgsOnlyVars, digits,
                   rotationKeys, rotatedCiphersExt, accIdx, resultQP, result,
                   first, pc>>

\* Iteration i: the assignment to rotatedCiphersExt[i].
TaskStore(i) ==
    /\ pc = "fork"
    /\ taskPc[i] = "computed"
    /\ rotatedCiphersExt' = [rotatedCiphersExt EXCEPT
                                ![TaskSlot(i, StoredCount)] = taskLocal[i]]
    /\ taskPc' = [taskPc EXCEPT ![i] = "stored"]
    /\ UNCHANGED <<parInputVars, parSetupVars, bsgsOnlyVars, digits,
                   rotationKeys, taskLocal, accIdx, resultQP, result, first, pc>>

\* The barrier that ends the parallel region, then lines 211-212.
ParJoin ==
    /\ pc = "fork"
    /\ \A i \in Tasks : taskPc[i] = "stored"
    /\ resultQP' = Null
    /\ first' = TRUE
    /\ accIdx' = 1
    /\ pc' = "accumulate"
    /\ UNCHANGED <<parInputVars, parSetupVars, bsgsOnlyVars, digits,
                   rotationKeys, rotatedCiphersExt, taskPc, taskLocal, result>>

\* One round of the sequential loop of lines 214-229.
ParAccumulate ==
    /\ pc = "accumulate"
    /\ accIdx <= Len(rotationKeys)
    /\ LET k == rotationKeys[accIdx]
           partialQP == EvalMultParts(rotatedCiphersExt[accIdx],
                                      diagonalsUnsigned[k], numSlots)
       IN  resultQP' = IF first THEN partialQP
                       ELSE EvalAddParts(resultQP, partialQP, numSlots)
    /\ first' = FALSE
    /\ accIdx' = accIdx + 1
    /\ UNCHANGED <<parInputVars, parSetupVars, bsgsOnlyVars, digits,
                   rotationKeys, rotatedCiphersExt, taskPc, taskLocal, result, pc>>

\* Lines 232-236: the one KeySwitchDown, when anything was accumulated.
ParKeySwitchDown ==
    /\ pc = "accumulate"
    /\ accIdx > Len(rotationKeys)
    /\ result' = IF ~first THEN KeySwitchDown(resultQP) ELSE Null
    /\ pc' = "main_diagonal"
    /\ UNCHANGED <<parInputVars, parSetupVars, bsgsOnlyVars, parVars, first>>

\* Lines 240-252: the main diagonal, without rotation.
ParMainDiagonal ==
    /\ pc = "main_diagonal"
    /\ IF 0 \in DOMAIN diagonalsUnsigned
       THEN LET mainDiagResult == EvalMultParts(cipherInput,
                                                diagonalsUnsigned[0], numSlots)
            IN  result' = IF first THEN mainDiagResult
                          ELSE EvalAddParts(result, mainDiagResult, numSlots)
       ELSE UNCHANGED result
    /\ pc' = "par_done"
    /\ UNCHANGED <<parInputVars, parSetupVars, bsgsOnlyVars, parVars, first>>

NextParallel ==
    \/ ParSetup
    \/ ParPrecompute
    \/ \E i \in Tasks : TaskRotate(i)
    \/ \E i \in Tasks : TaskStore(i)
    \/ ParJoin
    \/ ParAccumulate
    \/ ParKeySwitchDown
    \/ ParMainDiagonal

SpecParallel == InitParallel /\ [][NextParallel]_vars


\* ------------------------------------------------ command-line handling
\* A string is the sequence of its characters.
MaxArgs == 2

\* The arguments explored: the documented --help, the short -h, the same
\* with a value attached, and arguments that only resemble them.
ArgWords ==
    { <<"-", "-", "h", "e", "l", "p">>,
      <<"-", "h">>,
      <<"-", "-", "h", "e", "l", "p", "=", "1">>,
      <<"-", "h", "=">>,
      <<"h", "e", "l", "p">>,
      <<"-", "-", "h", "e", "l", "p", "e", "r", "=", "1">>,
      <<"=", "h", "e", "l", "p">>,
      <<"-", "-", "q", "=", "1">>,
      <<"-", "-", "q", "=", "h">> }

\* std::string::find(ch): the first position holding ch, 0 for npos.
Find(str, ch) ==
    IF \E i \in 1 .. Len(str) : str[i] = ch
    THEN SetMin({i \in 1 .. Len(str) : str[i] = ch})
    ELSE 0

\* The while loop that removes leading dashes from a key.
RECURSIVE RemoveLeadingDashes(_)
RemoveLeadingDashes(key) ==
    IF key # << >> /\ key[1] = "-" THEN RemoveLeadingDashes(Tail(key)) ELSE key

\* Whether parse stores the argument: only when it contains '='.
StoresArgument(arg) == Find(arg, "=") # 0

\* One round of parse's loop applied to the map: args[key] = value.
ParsedInto(a, arg) ==
    LET eq_pos == IF Find(arg, "=") # 0 THEN Find(arg, "=") ELSE Len(arg) + 1
        key    == RemoveLeadingDashes(SubSeq(arg, 1, eq_pos - 1))
        value  == SubSeq(arg, eq_pos + 1, Len(arg))
    IN  IF StoresArgument(arg)
        THEN [k \in DOMAIN a \cup {key} |-> IF k = key THEN value ELSE a[k]]
        ELSE a

\* ArgParser::hasHelp.
hasHelp(a) == <<"h", "e", "l", "p">> \in DOMAIN a \/ <<"h">> \in DOMAIN a

\* The examples whose main begins with parse and the help test.
HelpExamples == {"rotation", "addition", "multiplication", "simple"}

InitArgs ==
    /\ variant \in HelpExamples
    /\ argv \in UNION {[1 .. len -> ArgWords] : len \in 0 .. MaxArgs}
    /\ numSlots = 1
    /\ matrixDim = 0
    /\ matrixDimArg = <<0, 0>>
    /\ probe = << >>
    /\ mode = "all"
    /\ InitMain

argFixedVars == <<variant, numSlots, matrixDim, matrixDimArg, probe, parVars,
                  measureVars,
                  secretKeyUses, dataVars, planVars, keyVars, inputFile,
                  evalVars, outVars>>

\* ArgParser::parse, one argument per step.
ParseArgument ==
    /\ pc = "start"
    /\ argI <= Len(argv)
    /\ args' = ParsedInto(args, argv[argI])
    /\ argI' = argI + 1
    /\ UNCHANGED <<pc, argv, usagePrinted, keyPair, argFixedVars>>

\* The end of parse, then main's test of hasHelp(): the usage and return 0,
\* or on into the benchmark.
HelpCheck ==
    /\ pc = "start"
    /\ argI > Len(argv)
    /\ IF hasHelp(args)
       THEN /\ usagePrinted' = TRUE
            /\ pc' = "exit0"
       ELSE /\ usagePrinted' = FALSE
            /\ pc' = "setup"
    /\ UNCHANGED <<argv, argI, args, keyPair, argFixedVars>>

\* What follows the help test: the parameters are read and the context and
\* the keys are set up.
BenchmarkSetup ==
    /\ pc = "setup"
    /\ keyPair' = "generated"
    /\ pc' = "compute"
    /\ UNCHANGED <<argVars, argFixedVars>>

NextArgs ==
    \/ ParseArgument
    \/ HelpCheck
    \/ BenchmarkSetup

SpecArgs == InitArgs /\ [][NextArgs]_vars


\* ------------------------------------------------ the profiled section
\* Every example brackets its computation with the DRAM counter and the PIN
\* markers.  events records, in order, the counter and marker calls that took
\* effect and the accesses to the input and result files.
MeasurementModes == {"none", "dram", "pin", "all"}

\* Examples that profile through a MeasurementSystem object, examples that
\* call g_dram_counter and the PIN markers themselves, and a caller of the
\* startMeasuring/stopMeasuring pair.
SystemExamples == {"rotation", "addition", "multiplication", "simple", "hoisted"}
DirectExamples == {"bsgs", "parallel"}
MeasuredExamples == SystemExamples \cup DirectExamples \cup {"measuring"}

\* Examples that load an evaluation key before the input ciphertext, and
\* examples that load rotation keys inside the computation.
LoadsKeyFirst == {"rotation", "multiplication", "parallel"}
LoadsKeysOnDemand == {"simple", "bsgs", "hoisted"}

MeasuresDRAM(m) == m \in {"dram", "all"}
MeasuresPIN(m) == m \in {"pin", "all"}

startDRAM(m, ev) == IF MeasuresDRAM(m) THEN Append(ev, "dram_start") ELSE ev

stopDRAM(m, ev) == IF MeasuresDRAM(m) THEN Append(ev, "dram_stop") ELSE ev

\* The examples call startPIN and endPIN on the MeasurementSystem; they are
\* the PIN halves of startMeasuring and stopMeasuring.
startPIN(m, ev) == IF MeasuresPIN(m) THEN Append(ev, "pin_start") ELSE ev

endPIN(m, ev) == IF MeasuresPIN(m) THEN Append(ev, "pin_end") ELSE ev

startMeasuring(m, ev) ==
    LET started == IF MeasuresDRAM(m) THEN Append(ev, "dram_start") ELSE ev
    IN  IF MeasuresPIN(m) THEN Append(started, "pin_start") ELSE started

stopMeasuringDramFirst(m, ev) ==
    LET stopped == IF MeasuresDRAM(m) THEN Append(ev, "dram_stop") ELSE ev
    IN  IF MeasuresPIN(m) THEN Append(stopped, "pin_end") ELSE stopped
stopMeasuring(m, ev) ==
    LET ended == IF MeasuresPIN(m) THEN Append(ev, "pin_end") ELSE ev
    IN  IF MeasuresDRAM(m) THEN Append(ended, "dram_stop") ELSE ended

InitMeasure ==
    /\ argv = << >>
    /\ variant \in MeasuredExamples
    /\ mode \in MeasurementModes
    /\ numSlots = 1
    /\ matrixDim = 0
    /\ matrixDimArg = <<0, 0>>
    /\ probe = << >>
    /\ InitMain

measureFixedVars == <<variant, numSlots, matrixDim, matrixDimArg, probe, parVars,
                      argVars, mode, secretVars, dataVars, planVars, keyVars,
                      inputFile, evalVars, outVars>>

\* measurement.startDRAM(), or g_dram_counter.start() in the examples that
\* hold the counter themselves.
BeginProfile ==
    /\ pc = "start"
    /\ variant # "measuring"
    /\ events' = IF variant \in DirectExamples
                 THEN Append(events, "dram_start")
                 ELSE startDRAM(mode, events)
    /\ pc' = "load"
    /\ UNCHANGED measureFixedVars

\* The loads before the computation: the evaluation key where there is one
\* (a failure returns 1 before the input is touched), then the input
\* ciphertext (a failure returns 1).
LoadOperands ==
    /\ pc = "load"
    /\ \/ /\ variant \in LoadsKeyFirst
          /\ events' = events
          /\ pc' = "exit1"
       \/ /\ events' = Append(events, "load_input")
          /\ pc' \in {"pin", "exit1"}
    /\ UNCHANGED measureFixedVars

\* measurement.startPIN(), or PIN_MARKER_START().
EnterPIN ==
    /\ pc = "pin"
    /\ events' = IF variant \in DirectExamples
                 THEN Append(events, "pin_start")
                 ELSE startPIN(mode, events)
    /\ pc' = "compute"
    /\ UNCHANGED measureFixedVars

\* The computation.  The examples that load rotation keys on demand leave
\* main from inside it when a key file cannot be read.
Compute ==
    /\ pc = "compute"
    /\ \/ pc' = IF variant = "measuring" THEN "stop" ELSE "endpin"
       \/ /\ variant \in LoadsKeysOnDemand
          /\ pc' = "exit1"
    /\ UNCHANGED <<events, measureFixedVars>>

\* measurement.endPIN(), or PIN_MARKER_END().
LeavePIN ==
    /\ pc = "endpin"
    /\ events' = IF variant \in DirectExamples
                 THEN Append(events, "pin_end")
                 ELSE endPIN(mode, events)
    /\ pc' = "save"
    /\ UNCHANGED measureFixedVars

\* Serial::SerializeToFile of the result; a failure returns 1.
SaveOutput ==
    /\ pc = "save"
    /\ events' = Append(events, "save_result")
    /\ pc' \in {"stop", "exit1"}
    /\ UNCHANGED measureFixedVars

\* measurement.stopDRAM(), or g_dram_counter.stop().
EndProfile ==
    /\ pc = "stop"
    /\ variant # "measuring"
    /\ events' = IF variant \in DirectExamples
                 THEN Append(events, "dram_stop")
                 ELSE stopDRAM(mode, events)
    /\ pc' = "exit0"
    /\ UNCHANGED measureFixedVars

\* A caller that brackets its work with the pair.
CallStartMeasuring ==
    /\ pc = "start"
    /\ variant = "measuring"
    /\ events' = startMeasuring(mode, events)
    /\ pc' = "compute"
    /\ UNCHANGED measureFixedVars

CallStopMeasuring ==
    /\ pc = "stop"
    /\ variant = "measuring"
    /\ events' = stopMeasuring(mode, events)
    /\ pc' = "exit0"
    /\ UNCHANGED measureFixedVars

NextMeasure ==
    \/ BeginProfile
    \/ LoadOperands
    \/ EnterPIN
    \/ Compute
    \/ LeavePIN
    \/ SaveOutput
    \/ EndProfile
    \/ CallStartMeasuring
    \/ CallStopMeasuring

SpecMeasure == InitMeasure /\ [][NextMeasure]_vars


\* ---------------------------------------------- the rotation benchmark
\* rotation.cpp: the 8-element test vector is packed into a plaintext of
\* numSlots slots (the free slots hold zero), encrypted, rotated by
\* --rotation-index, and the decrypted result is compared on the first 8
\* positions with a vector main computes itself.
MaxRotation == 9

\* vec, in units of 1e-3.
TestVec == <<1000, 2000, 3000, 4000, 5000, 6000, 7000, 8000>>

\* Slot counts of the context: exactly the 8 the vector fills, or more.
RotationSlotCounts == {8, 16}

\* MakeCKKSPackedPlaintext(vec): slot r holds vec[r], the rest zero.
PackedTestVec(n) ==
    [r \in Slots(n) |-> IF r < Len(TestVec) THEN TestVec[r + 1] ELSE 0]

\* The rotation index and the state of the loop that fills expected.
rotationIndex == probe.a
expected == probe.out

\* srcIndex of lines 204-212: (i + rotationIndex) % vec.size() computed in
\* size_t, kept for rotationIndex >= 0 (where i + rotationIndex does not
\* wrap); for a negative index i + rotationIndex plus as many vec.size() as
\* make it non-negative.
SrcIndex(i, r) ==
    LET size == Len(TestVec)
        RECURSIVE Adjust(_)
        Adjust(adjustedIndex) ==
            IF adjustedIndex < 0 THEN Adjust(adjustedIndex + size)
            ELSE adjustedIndex
    IN  IF r < 0 THEN Adjust(i + r) ELSE (i + r) % size

InitRotation ==
    /\ argv = << >>
    /\ variant = "rotation"
    /\ numSlots \in RotationSlotCounts
    /\ matrixDim = 0
    /\ matrixDimArg = <<0, 0>>
    /\ probe \in {[fn |-> "rotation", a |-> r, b |-> 0, out |-> << >>] :
                    r \in (-MaxRotation) .. MaxRotation}
    /\ mode = "all"
    /\ InitMain

rotationFixedVars == <<variant, numSlots, matrixDim, matrixDimArg, parVars,
                       argVars, measureVars, secretVars, dataVars, planVars,
                       keyVars, inputFile, precomputedDigits, babyRotationCache,
                       babyRotationComputed, sortedGiantSteps, gIdx, bi,
                       giantBlockSum, giantBlockFirst, first, oplog, outVars>>

\* Lines 90-101: pack and encrypt vec.
RotationEncrypt ==
    /\ pc = "start"
    /\ cipherInput' = PackedTestVec(numSlots)
    /\ pc' = "rotate"
    /\ UNCHANGED <<probe, result, rotationFixedVars>>

\* Line 170: result = EvalRotate(cipher, rotationIndex).
RotationEval ==
    /\ pc = "rotate"
    /\ result' = EvalRotate(cipherInput, rotationIndex, numSlots)
    /\ pc' = "expected"
    /\ UNCHANGED <<probe, cipherInput, rotationFixedVars>>

\* Lines 202-214, one pass of the loop: expected.push_back(vec[srcIndex]).
ExpectedStep ==
    /\ pc = "expected"
    /\ probe.b < Len(TestVec)
    /\ probe' = [probe EXCEPT
                   !.out = Append(@, TestVec[SrcIndex(probe.b, rotationIndex) + 1]),
                   !.b = @ + 1]
    /\ UNCHANGED <<pc, cipherInput, result, rotationFixedVars>>

\* The loop is over: expected goes to the comparison with the result.
ExpectedDone ==
    /\ pc = "expected"
    /\ probe.b = Len(TestVec)
    /\ pc' = "verify"
    /\ UNCHANGED <<probe, cipherInput, result, rotationFixedVars>>

NextRotation ==
    \/ RotationEncrypt
    \/ RotationEval
    \/ ExpectedStep
    \/ ExpectedDone

SpecRotation == InitRotation /\ [][NextRotation]_vars


\* ------------------------------------------------------------ properties
\* C2: for every signed offset k and every n1 >= 1, with j = floorDivision(k, n1)
\* and i = k - j * n1: j * n1 + i = k, 0 <= i < n1, and j is the floor of k / n1
\* (k = -1 gives j = -1 and i = n1 - 1), never the truncated quotient.
C2_FloorDecomposition ==
    (probe.fn = "floorDivision" /\ probe.b >= 1) =>
        LET k  == probe.a
            nn == probe.b
            j  == probe.out[1]
            i  == k - j * nn
        IN  /\ j * nn + i = k
            /\ 0 <= i /\ i < nn
            /\ j = k \div nn
            /\ j * nn <= k /\ k < (j + 1) * nn
            /\ (k = -1 => j = -1 /\ i = nn - 1)

\* A negative offset that is no multiple of n1: truncation and floor differ.
C2_Witness ==
    /\ probe.fn = "floorDivision"
    /\ probe.a < 0
    /\ probe.b >= 2
    /\ probe.out[1] = CppDiv(probe.a, probe.b) - 1

\* C8: normalizeToSignedIndex is idempotent on [0, n), and every value of the
\* signed range (-n/2, n/2] is a fixed point.
C8_NormalizeIdempotent ==
    (probe.fn = "normalizeToSignedIndex") =>
        /\ (Len(probe.out) = 2 /\ probe.a \in 0 .. (probe.b - 1)) =>
               probe.out[2] = probe.out[1]
        /\ (-probe.b < 2 * probe.a /\ 2 * probe.a <= probe.b) =>
               probe.out[1] = probe.a

\* An offset of the second half, normalized twice.
C8_Witness ==
    /\ probe.fn = "normalizeToSignedIndex"
    /\ Len(probe.out) = 2
    /\ probe.a \in 0 .. (probe.b - 1)
    /\ probe.out[1] < 0
    /\ probe.out[2] = probe.out[1]

\* C9: for k in [0, n), normalizeToSignedIndex(k, n) is the representative of k
\* modulo n in (-n/2, n/2]; distinct unsigned offsets get distinct signed ones
\* and the conversion of the diagonal map keeps every diagonal.
C9_SignedRepresentative ==
    /\ (probe.fn = "normalizeToSignedIndex" /\ probe.a \in 0 .. (probe.b - 1)) =>
          /\ (probe.out[1] - probe.a) % probe.b = 0
          /\ -probe.b < 2 * probe.out[1]
          /\ 2 * probe.out[1] <= probe.b
    /\ (probe.fn = "SignedDiagonals") =>
          LET K  == probe.a
              n  == probe.b
              sd == probe.out[1]
          IN  /\ Cardinality(DOMAIN sd) = Cardinality(K)
              /\ \A ks \in DOMAIN sd : -n < 2 * ks /\ 2 * ks <= n
              /\ \A k \in K : \E ks \in DOMAIN sd :
                    /\ (ks - k) % n = 0
                    /\ sd[ks] = <<k>>

\* A conversion of offsets of both halves, the half itself among them.
C9_Witness ==
    /\ probe.fn = "SignedDiagonals"
    /\ probe.b >= 4
    /\ Cardinality(probe.a) >= 3
    /\ CppDiv(probe.b, 2) \in probe.a
    /\ \E ks \in DOMAIN probe.out[1] : ks < 0


\* --------------------------------------------- properties of the BSGS runs
\* The signed offset, in (-n/2, n/2], of the diagonal through cell (r, c).
SignedOffsetOf(r, c, n) ==
    LET u == (c - r) % n
    IN  IF 2 * u > n THEN u - n ELSE u

\* The signed offsets of the diagonals that hold a non-zero entry of M.
PopulatedOffsets ==
    {SignedOffsetOf(rc[1], rc[2], numSlots) : rc \in {x \in DOMAIN M : M[x] # 0}}

\* M * inputVec, by the definition of the matrix-vector product.
Product ==
    LET RECURSIVE Dot(_, _)
        Dot(r, c) == IF c < 0 THEN 0 ELSE M[<<r, c>>] * inputVec[c] + Dot(r, c - 1)
    IN  [r \in Slots(numSlots) |-> Dot(r, numSlots - 1)]

LoopFinished == pc = "giant" /\ gIdx > Len(sortedGiantSteps)

\* C1: for every matrix with its non-zero entries in the top-left block and
\* every input, the BSGS pipeline produces a vector whose slot r is the sum
\* over c < d of M[r][c] * v[c], for every r < d.
C1_PipelineComputesProduct ==
    LoopFinished =>
        /\ result # Null
        /\ \A r \in Slots(numSlots) : r < matrixDim => result[r] = Product[r]

\* The same, for the matrices with at least one non-zero entry (holds).
ProductOnPopulated ==
    (LoopFinished /\ PopulatedOffsets # {}) =>
        /\ result # Null
        /\ \A r \in Slots(numSlots) : r < matrixDim => result[r] = Product[r]

\* The evaluation loop of simple-diagonal-method.cpp on the diagonals under
\* their unsigned offsets, visited in the order of the map: the input rotated
\* by k (not at all for k = 0) times diagonal k, the first product assigned
\* and the others added; the accumulator stays unassigned without diagonals.
SimpleDiagonalMethod(diagonals, ct, n) ==
    LET partial(k) ==
            EvalMult(IF k = 0 THEN ct ELSE EvalRotate(ct, k, n), diagonals[k], n)
        RECURSIVE Accumulate(_, _)
        Accumulate(rest, acc) ==
            IF rest = {} THEN acc
            ELSE LET k == CHOOSE x \in rest : \A y \in rest : x <= y
                 IN  Accumulate(rest \ {k},
                                IF acc = Null THEN partial(k)
                                ELSE EvalAdd(acc, partial(k), n))
    IN  Accumulate(DOMAIN diagonals, Null)

\* The sum over the populated unsigned offsets k of diagonal_k times
\* Rotate(input, k), slot by slot.
DiagonalSum(diagonals, ct, n) ==
    LET RECURSIVE Sum(_, _)
        Sum(rest, r) ==
            IF rest = {} THEN 0
            ELSE LET k == CHOOSE x \in rest : TRUE
                 IN  diagonals[k][r] * ct[(r + k) % n] + Sum(rest \ {k}, r)
    IN  [r \in Slots(n) |-> Sum(DOMAIN diagonals, r)]

\* The rotation amounts the populated diagonals need, by floor and modulus.
ExpectedRotationKeys ==
    LET K == PopulatedOffsets
    IN  ({k % n1 : k \in K} \ {0}) \cup ({n1 * (k \div n1) : k \in K} \ {0})

KeygenFinished == pc = "keygen" /\ genIdx > Cardinality(rotationIndices)

EvalPCs == {"giant", "baby", "baby_rotate", "baby_clear", "giant_rotate",
            "giant_clear", "combine", "save", "verify", "exit0"}

\* C3: the rotation amounts for which keys are generated and persisted are
\* exactly the non-zero baby indices and the non-zero giant amounts n1 * j of
\* the populated diagonals; no key is generated for any other amount.
C3_KeySetExact ==
    n1 >= 1 =>
        LET Expected == ExpectedRotationKeys
        IN  /\ rotationIndices \subseteq Expected
            /\ generated \subseteq rotationIndices
            /\ DOMAIN keyFiles \subseteq generated
            /\ \A a \in DOMAIN keyFiles : a \in keyFiles[a]
            /\ pc \in {"keygen", "eval_start"} \cup EvalPCs =>
                  rotationIndices = Expected
            /\ KeygenFinished =>
                  /\ generated = Expected
                  /\ DOMAIN keyFiles = Expected
            /\ pc \in {"eval_start"} \cup EvalPCs => generated = Expected

\* Keys generated for a sparse plan: a giant amount, and baby step 1 of the
\* grid unused.
C3_Witness ==
    /\ KeygenFinished
    /\ n1 = 2
    /\ rotationIndices # {}
    /\ 1 \notin rotationIndices
    /\ DOMAIN keyFiles = rotationIndices

LogIndices == 1 .. Len(oplog)
KeyFilesIntact == DOMAIN keyFiles = rotationIndices

\* C4: every amount the evaluation tries to load a key for was generated, and
\* with every persisted key file intact no load fails.
C4_NoMissingKey ==
    /\ \A x \in LogIndices :
          oplog[x].op \in {"load", "loadfail"} => oplog[x].arg \in generated
    /\ KeyFilesIntact => \A x \in LogIndices : oplog[x].op # "loadfail"

\* A completed run that loaded a baby key and a negative giant key.
C4_Witness ==
    /\ pc = "exit0"
    /\ KeyFilesIntact
    /\ \E x, y \in LogIndices :
          /\ oplog[x].op = "load" /\ oplog[x].arg \in 1 .. (n1 - 1)
          /\ oplog[y].op = "load" /\ oplog[y].arg < 0

\* C5: a failed key load ends the run there: nothing is done after it, the
\* cache gets no substitute for the rotation, and no result is saved.
C5_AbortOnMissingKey ==
    \A x \in LogIndices :
        oplog[x].op = "loadfail" =>
            /\ x = Len(oplog)
            /\ pc \in {"terminated", "exit1"}
            /\ resultFile = << >>
            /\ oplog[x].arg \in 1 .. (n1 - 1) =>
                  /\ ~babyRotationComputed[oplog[x].arg]
                  /\ babyRotationCache[oplog[x].arg] = Null

\* A baby key load that failed after some operations were done.
C5_Witness ==
    /\ Len(oplog) >= 2
    /\ oplog[Len(oplog)].op = "loadfail"
    /\ oplog[Len(oplog)].arg \in 1 .. (n1 - 1)
    /\ pc = "terminated"

\* C6: at most one rotation key is resident at any time: in setup only between
\* its generation and the clear that follows its serialization, in evaluation
\* only between its load and the clear that follows the rotation using it;
\* every key file holds one key; no key is resident when the result is saved.
C6_OneKeyResident ==
    /\ Cardinality(evalKeys) <= 1
    /\ \A a \in DOMAIN keyFiles : keyFiles[a] = {a}
    /\ pc \in {"serialize_key", "clear_key"} => evalKeys = {CurRot}
    /\ pc \in {"baby_rotate", "baby_clear"} => evalKeys = {bi}
    /\ pc \in {"giant_rotate", "giant_clear"} => evalKeys = {n1 * CurJ}
    /\ pc \in {"start", "create", "extract", "plan", "tempdir", "collect",
               "keygen", "eval_start", "giant", "baby", "combine", "save",
               "verify", "exit0", "terminated", "crashed"} => evalKeys = {}
    /\ resultFile # << >> => evalKeys = {}

\* A giant key resident for its rotation, after a baby key came and went.
C6_Witness ==
    /\ pc = "giant_rotate"
    /\ evalKeys = {n1 * CurJ}
    /\ \E x \in LogIndices : oplog[x].op = "rotate" /\ oplog[x].arg \in 1 .. (n1 - 1)

\* Only the main diagonal of M holds non-zero entries.
OnlyMainDiagonal ==
    /\ \E rc \in DOMAIN M : M[rc] # 0
    /\ \A rc \in DOMAIN M : M[rc] # 0 => rc[1] = rc[2]

\* C7: with only the main diagonal populated the plan has n1 = 1, no rotation
\* key is generated, the evaluation loads no key and rotates nothing, and the
\* result is the slot-wise product of the input with diagonal 0.
C7_MainDiagonalOnly ==
    OnlyMainDiagonal =>
        /\ n1 \in {0, 1}
        /\ pc \notin {"start", "create", "extract", "plan"} => n1 = 1
        /\ rotationIndices = {} /\ generated = {} /\ DOMAIN keyFiles = {}
        /\ evalKeys = {}
        /\ \A x \in LogIndices : oplog[x].op \in {"mult", "rescale"}
        /\ pc \in {"save", "verify", "exit0"} =>
              /\ result = [r \in Slots(numSlots) |-> inputVec[r] * M[<<r, r>>]]
              /\ Len(SelectSeq(oplog, LAMBDA e : e.op = "mult")) = 1

\* A completed run on a diagonal matrix with two non-zero entries.
C7_Witness ==
    /\ OnlyMainDiagonal
    /\ pc = "exit0"
    /\ verified = "pass"
    /\ Cardinality({rc \in DOMAIN M : M[rc] # 0}) >= 2


\* The operations of a complete evaluation as a function of the plan alone:
\* the populated offsets in ascending order, each with the load and rotation
\* of its baby index when no smaller offset has that index, its
\* multiplication and, when a smaller offset shares its block, an addition;
\* after the largest offset of a block the giant rotation (j # 0) and, when a
\* smaller block exists, the addition to the result.
PlanOps(K, nn, var) ==
    LET Jof(k) == k \div nn
        Iof(k) == k % nn
        Baby(k) == IF Iof(k) # 0 /\ \A k2 \in K : k2 < k => Iof(k2) # Iof(k)
                   THEN <<Op("load", Iof(k)), Op("rotate", Iof(k))>> ELSE << >>
        Acc(k) == IF \E k2 \in K : k2 < k /\ Jof(k2) = Jof(k)
                  THEN <<Op("mult", k), Op("add", k)>> ELSE <<Op("mult", k)>>
        Giant(k) == IF Jof(k) # 0
                    THEN <<Op("load", nn * Jof(k)), Op("rotate", nn * Jof(k))>>
                    ELSE << >>
        Block(k) == IF \E k2 \in K : Jof(k2) < Jof(k)
                    THEN <<Op("addblock", Jof(k))>> ELSE << >>
        BlockEnd(k) == IF \E k2 \in K : k2 > k /\ Jof(k2) = Jof(k) THEN << >>
                       ELSE Giant(k) \o Block(k)
        RECURSIVE Walk(_)
        Walk(ks) == IF ks = << >> THEN << >>
                    ELSE Baby(Head(ks)) \o Acc(Head(ks)) \o BlockEnd(Head(ks))
                         \o Walk(Tail(ks))
    IN  Walk(Ascending(K))
        \o (IF var = "bsgs" /\ K # {} THEN <<Op("rescale", 0)>> ELSE << >>)

\* The same, cut at the first load whose key file is missing.
PlanOpsWithFiles(K, nn, var, files) ==
    LET E == PlanOps(K, nn, var)
        missing == {x \in 1 .. Len(E) : E[x].op = "load" /\ E[x].arg \notin files}
    IN  IF missing = {} THEN E
        ELSE SubSeq(E, 1, SetMin(missing) - 1)
             \o <<Op("loadfail", E[SetMin(missing)].arg)>>

\* The result as a function of the plan and the input alone.
PlanResult(K, nn, pre, input, n) ==
    LET RECURSIVE Sum(_, _)
        Sum(S, r) == IF S = {} THEN 0
                     ELSE LET k == SetMin(S)
                          IN  input[(r + k) % n] * pre[k][(r + nn * (k \div nn)) % n]
                              + Sum(S \ {k}, r)
    IN  IF K = {} THEN Null ELSE [r \in Slots(n) |-> Sum(K, r)]

IsPrefix(a, b) == Len(a) <= Len(b) /\ SubSeq(b, 1, Len(a)) = a

\* C10: the evaluation is deterministic: the operations performed are at any
\* time the beginning of one sequence fixed by the plan (n1, populated
\* offsets), the example and the key files present, and a completed run has
\* performed exactly that sequence and holds the result fixed by the plan and
\* the input.
C10_Deterministic ==
    LET E == PlanOpsWithFiles(DOMAIN preshiftedDiagonals, n1, variant,
                              DOMAIN keyFiles)
    IN  /\ n1 = 0 => oplog = << >>
        /\ n1 >= 1 =>
              /\ IsPrefix(oplog, E)
              /\ pc \in {"save", "verify", "exit0", "terminated"} => oplog = E
              /\ (oplog # << >> /\ oplog[Len(oplog)].op = "loadfail") => oplog = E
              /\ pc \in {"save", "verify", "exit0"} =>
                    result = PlanResult(DOMAIN preshiftedDiagonals, n1,
                                        preshiftedDiagonals, cipherInput, numSlots)

\* A completed run over two giant blocks, one of them with two diagonals
\* and a baby rotation, the other reached by a giant rotation.
C10_Witness ==
    /\ pc = "exit0"
    /\ Len(sortedGiantSteps) >= 2
    /\ \E x \in LogIndices : oplog[x].op = "add"
    /\ \E x \in LogIndices : oplog[x].op = "addblock"
    /\ Len(SelectSeq(oplog, LAMBDA e : e.op = "rotate")) >= 2

\* C11: for the dense 16 x 16 block in n >= 32 slots the populated signed
\* offsets are -15 .. 15 (31 diagonals), the planner chooses n1 = 6, the keys
\* generated are the 5 baby amounts 1 .. 5 plus one per distinct non-zero giant
\* multiple of 6, and fewer than 31 keys are generated in total.
C11_DensePlan ==
    (probe.fn = "plan" /\ probe.a = 16 /\ probe.b >= 32) =>
        LET plan == probe.out[1]
            rot  == plan.rotationIndices
        IN  /\ plan.offsets = (-15) .. 15
            /\ Cardinality(plan.offsets) = 31
            /\ plan.n1 = 6
            /\ plan.usedBabySteps = 0 .. 5
            /\ {a \in rot : a % 6 # 0} = 1 .. 5
            /\ {a \in rot : a % 6 = 0} =
                  {6 * j : j \in plan.usedGiantSteps \ {0}}
            /\ Cardinality(rot) = 5 + Cardinality(plan.usedGiantSteps \ {0})
            /\ Cardinality(rot) < 31

\* The dense 16 x 16 block in 32 slots: giant steps -3 .. 2, ten keys.
C11_Witness ==
    /\ probe.fn = "plan"
    /\ probe.a = 16
    /\ probe.b = 32
    /\ probe.out[1].usedGiantSteps = (-3) .. 2
    /\ Cardinality(probe.out[1].rotationIndices) = 10

\* C20: for every count D >= 1 of populated diagonals in an n-slot domain
\* (D <= n) the chosen n1 is the least positive m with m * m >= D, and in
\* every case 1 <= n1 <= n.
C20_CeilSqrtClamped ==
    (probe.fn = "ChooseN1") =>
        LET D  == probe.a
            n  == probe.b
            nn == probe.out[1]
        IN  /\ 1 <= nn /\ nn <= n
            /\ (1 <= D /\ D <= n) =>
                  /\ nn * nn >= D
                  /\ \A m \in 1 .. (nn - 1) : m * m < D

\* A count that is no perfect square: the root is rounded up.
C20_Witness ==
    /\ probe.fn = "ChooseN1"
    /\ probe.a = 10
    /\ probe.b >= 10
    /\ probe.out[1] = 4

\* C12: when the requested matrix dimension exceeds the slot count, the run
\* ends with failure status at the check: no key pair and no rotation key is
\* generated, nothing is encrypted or persisted, no evaluation step is done.
C12_OversizeRejected ==
    (WideGreater(matrixDimArg, numSlots) /\ pc # "start") =>
        /\ pc = "exit1"
        /\ keyPair = "none"
        /\ generated = {}
        /\ DOMAIN keyFiles = {}
        /\ inputFile = Null
        /\ oplog = << >>
        /\ resultFile = << >>

\* The same for the dimensions below 2^31 and for the simple example (holds).
OversizeRejectedBelowIntMax ==
    (matrixDimArg[1] < 32768 \/ variant = "simple") => C12_OversizeRejected

\* The matrix is created and no entry of it is non-zero.
ZeroMatrix == M # << >> /\ \A rc \in DOMAIN M : M[rc] = 0

\* C13: with no populated diagonal the planning is handled: the run does not
\* fail while building or reporting the plan (no element of an empty
\* collection is read), n1 = 1 and the rotation-key set is empty.
C13_EmptyPlanHandled ==
    ZeroMatrix =>
        /\ pc # "crashed"
        /\ pc \notin {"extract", "plan"} => (n1 = 1 /\ rotationIndices = {})

\* The same for the runs in which the reads of begin() of the empty
\* containers do no harm (holds).
EmptyPlanWhenReadsSurvived ==
    (ZeroMatrix /\ pc \notin {"extract", "plan", "crashed"}) =>
        (n1 = 1 /\ rotationIndices = {} /\ generated = {})

\* The states in which main has returned or the process was ended.
TerminalPCs == {"exit0", "exit1", "terminated", "crashed"}

\* The evaluation has begun: the input was encrypted and persisted, and main
\* is past the point where the evaluation starts.
EvalBegun == inputFile # Null /\ pc # "eval_start"

\* The result was produced and saved.
Completed == result # Null /\ resultFile = <<result>>

\* The run was ended by a file that could not be read or written: a return
\* with status 1, or the exception of a failed baby key load.
AbortedOnMissingResource ==
    \/ pc = "exit1"
    \/ /\ pc = "terminated"
       /\ oplog # << >>
       /\ oplog[Len(oplog)].op = "loadfail"

\* C14: an evaluation run ends in one of two ways only, for every plan: the
\* result produced and saved, or an abort on a missing resource.
C14_TwoEndings ==
    (EvalBegun /\ pc \in TerminalPCs) => (Completed \/ AbortedOnMissingResource)

\* Every evaluation run ends: no infinite loop (holds under SpecLive).
EvaluationEnds == (pc = "eval_start") ~> (pc \in TerminalPCs)

\* The two endings for the plans with at least one diagonal (holds).
TwoEndingsOnPopulated ==
    (EvalBegun /\ pc \in TerminalPCs /\ PopulatedOffsets # {}) =>
        (Completed \/ AbortedOnMissingResource)

\* main before the evaluation, and the steps of the evaluation (the load of
\* the input to the save of the result).
SetupPCs == {"start", "create", "extract", "plan", "tempdir", "collect",
             "keygen", "serialize_key", "clear_key", "eval_start"}
EvalRegion == {"giant", "baby", "baby_rotate", "baby_clear", "giant_rotate",
               "giant_clear", "combine", "save"}

\* C15: setup and evaluation are strictly ordered: no key is loaded before
\* every rotation key is generated and persisted, a step of the evaluation
\* neither generates a key nor writes or removes a key file, and no step of
\* the evaluation uses the secret key.
C15_SetupBeforeEvaluation ==
    /\ [](/\ pc \in SetupPCs => oplog = << >>
          /\ oplog # << >> => /\ generated = rotationIndices
                               /\ DOMAIN keyFiles \subseteq generated
          /\ pc \in EvalRegion => secretKeyUses \subseteq {"EvalRotateKeyGen"})
    /\ [][(pc \in EvalRegion \/ pc' \in EvalRegion) =>
              /\ generated' = generated
              /\ keyFiles' = keyFiles
              /\ secretKeyUses' = secretKeyUses]_vars

\* An evaluation that has loaded two keys, every key generated before.
C15_Witness ==
    /\ pc = "giant_rotate"
    /\ Len(SelectSeq(oplog, LAMBDA e : e.op = "load")) >= 2
    /\ secretKeyUses = {"EvalRotateKeyGen"}
    /\ generated = rotationIndices
    /\ DOMAIN keyFiles = rotationIndices

\* The verification ran to its end.
VerificationRan == verified # "none"

\* C16: a verification mismatch is reported and never fatal: when a decrypted
\* slot deviates from M * v by more than the tolerance of 1e-3 the outcome
\* reported is failure, with the maximum error; the saved result is untouched
\* and the program exits with status 0.
C16_MismatchReported ==
    VerificationRan =>
        /\ pc = "exit0"
        /\ resultFile = <<result>>
        /\ maxError >= 0
        /\ maxError > DefaultTolerance => verified = "fail"

\* The same for the bsgs example, which passes no tolerance argument (holds).
MismatchReportedBsgs == (variant = "bsgs") => C16_MismatchReported

\* The outcome is never fatal and never touches the saved result, in either
\* example (holds).
MismatchNeverFatal ==
    VerificationRan => (pc = "exit0" /\ resultFile = <<result>> /\ maxError >= 0)

\* The key loads, rotations, multiplications and additions of the log: every
\* operation but the rescaling.
AlgorithmOps == SelectSeq(oplog, LAMBDA e : e.op # "rescale")

ParallelResultOf(dd, ct, n) ==
    LET nonZero == DOMAIN dd \ {0}
        has0 == 0 \in DOMAIN dd
        RECURSIVE C1Sum(_, _)
        C1Sum(S, r) ==
            IF S = {} THEN 0
            ELSE LET k == SetMin(S)
                 IN  dd[k][r] * ct.c1s[(r + k) % n] + C1Sum(S \ {k}, r)
    IN  IF nonZero = {} /\ ~has0 THEN Null
        ELSE Parts([r \in Slots(n) |-> IF has0 THEN dd[0][r] * ct.c0[r] ELSE 0],
                   [r \in Slots(n) |->
                        C1Sum(nonZero, r)
                            + (IF has0 THEN dd[0][r] * ct.c1s[r] ELSE 0)],
                   FALSE)

AfterJoinPCs == {"accumulate", "main_diagonal", "par_done"}

\* Each step of the parallel region changes at most the element of
\* rotatedCiphersExt that belongs to the iteration storing in that step, and
\* leaves cipherInput and digits as they are.
TaskWritesOwnSlotOnly ==
    (pc = "fork") =>
        /\ cipherInput' = cipherInput
        /\ digits' = digits
        /\ rotationKeys' = rotationKeys
        /\ \A j \in Tasks :
              rotatedCiphersExt'[j] # rotatedCiphersExt[j]
                  => (taskPc[j] = "computed" /\ taskPc'[j] = "stored")

\* Once the accumulation is under way every iteration has stored, and every
\* element holds the rotation for its own offset.
AccumulationAfterJoin ==
    (pc \in AfterJoinPCs \/ resultQP # Null) =>
        \A i \in Tasks :
            /\ taskPc[i] = "stored"
            /\ rotatedCiphersExt[i] =
                  EvalFastRotationExt(cipherInput, rotationKeys[i], digits,
                                      FALSE, numSlots)

\* The result at the end does not depend on the order the iterations ran in.
ResultIndependentOfInterleaving ==
    (pc = "par_done") =>
        result = ParallelResultOf(diagonalsUnsigned, cipherInput, numSlots)

\* C18: in the single-hoisted diagonal example the rotations run as a
\* fork-join: an iteration of the parallel loop writes only its own element
\* of rotatedCiphersExt and leaves cipherInput and digits untouched, the
\* sequential accumulation starts only after every iteration has finished,
\* and the result is the same for every interleaving of the iterations.
C18_ForkJoinRotations ==
    /\ [](AccumulationAfterJoin /\ ResultIndependentOfInterleaving)
    /\ [][TaskWritesOwnSlotOnly]_vars

\* C18 witness: a run with at least two rotation iterations and a main
\* diagonal has finished with a result.
C18_Witness ==
    /\ pc = "par_done"
    /\ Len(rotationKeys) >= 2
    /\ 0 \in DOMAIN diagonalsUnsigned
    /\ result # Null
    /\ resultQP # Null


DocumentedHelp == <<"-", "-", "h", "e", "l", "p">>
HelpRequested == \E i \in 1 .. Len(argv) : argv[i] = DocumentedHelp
ParseReturned == argI > Len(argv)

\* C19: when the command line contains the documented argument --help,
\* hasHelp() is true once parse() has returned, and the benchmark prints its
\* usage and exits with status 0 without any setup or computation.
C19_HelpPrintsUsage ==
    (HelpRequested /\ ParseReturned) =>
        /\ hasHelp(args)
        /\ pc \in {"start", "exit0"}
        /\ pc = "exit0" => usagePrinted
        /\ keyPair = "none"

\* The help test itself works: whenever the parsed map holds the key help or
\* h, the run ends with the usage and without setup; it is the bare --help
\* that never reaches the map.
HelpKeyPrintsUsage ==
    (ParseReturned /\ hasHelp(args)) =>
        /\ pc \in {"start", "exit0"}
        /\ pc = "exit0" => usagePrinted
        /\ keyPair = "none"

\* An argument without '=' leaves the parsed map as it was.
BareArgumentDropped ==
    [][(pc = "start" /\ argI <= Len(argv) /\ Find(argv[argI], "=") = 0)
          => args' = args]_vars


\* The claim's reading of extract_generalized_diagonals with "non-zero" meaning
\* what Significant(x) says of an entry.
ExtractionAsStated(Significant(_)) ==
    probe.fn = "extract" =>
        LET d  == probe.a
            n  == probe.b
            Mx == probe.out[1]
            diagonals == probe.out[2]
            InBlock(r, k) == r < d /\ (r + k) % n < d
        IN  /\ DOMAIN diagonals =
                  {k \in Slots(n) : \E r \in Slots(n) :
                        InBlock(r, k) /\ Significant(Mx[<<r, (r + k) % n>>])}
            /\ \A k \in DOMAIN diagonals :
                  /\ DOMAIN diagonals[k] = Slots(n)
                  /\ \A r \in Slots(n) :
                        diagonals[k][r] = IF InBlock(r, k)
                                          THEN Mx[<<r, (r + k) % n>>] ELSE 0
            /\ \A r \in Slots(d), c \in Slots(d) :
                  Significant(Mx[<<r, c>>]) =>
                      Cardinality({kp \in (DOMAIN diagonals) \X Slots(n) :
                                      /\ (kp[2] + kp[1]) % n = c
                                      /\ kp[2] = r
                                      /\ diagonals[kp[1]][kp[2]] = Mx[<<r, c>>]}) = 1

IsNonZero(x) == x # 0
AboveThreshold(x) == Abs(x) > NonZeroThreshold

\* C21 as stated: the map holds offset k exactly when some entry of the
\* diagonal inside the block is non-zero, each stored vector has length n with
\* entry r equal to M[r][(r+k) mod n] inside the block and 0 outside, and every
\* non-zero entry of the block appears in exactly one diagonal at one position.
C21_ExtractsNonZeroDiagonals == ExtractionAsStated(IsNonZero)

\* C21 amended: the same with "non-zero" read as "of magnitude above 1e-10":
\* a diagonal is stored exactly when one of its entries inside the block has
\* magnitude above the threshold, and every such entry of the block appears
\* in exactly one stored diagonal at one position.
C21_ExtractsSignificantDiagonals == ExtractionAsStated(AboveThreshold)

\* C21 witness: a matrix with an entry above the threshold, stored with its
\* diagonal, and a non-zero entry at the threshold whose diagonal is dropped.
C21_Witness ==
    /\ probe.fn = "extract"
    /\ probe.b >= 2
    /\ DOMAIN probe.out[2] # {}
    /\ \E r \in Slots(probe.a), c \in Slots(probe.a) :
          /\ probe.out[1][<<r, c>>] = NonZeroThreshold
          /\ (c - r) % probe.b \notin DOMAIN probe.out[2]
    /\ \E r \in Slots(probe.a), c \in Slots(probe.a) :
          /\ probe.out[1][<<r, c>>] < 0
          /\ (c - r) % probe.b \in DOMAIN probe.out[2]


\* The shift of offset k: (n1 * j) mod n in [0, n), j the floor of k / n1.
ShiftOf(k) == (n1 * (k \div n1)) % numSlots

\* C22: for every populated signed offset k with decomposition (j, i) the
\* stored pre-shifted diagonal is the raw diagonal shifted cyclically by
\* s = (n1 * j) mod n in [0, n), also for negative j:
\* preshifted[(r + s) mod n] = diagonal[r] for all r, stored under the signed
\* key k; the shift permutes the slots, so every value occurs as often after
\* it as before.
C22_PreshiftIsCyclicShift ==
    n1 >= 1 =>
        /\ DOMAIN preshiftedDiagonals = DOMAIN diagonalsSigned
        /\ \A k \in DOMAIN diagonalsSigned :
              LET s == ShiftOf(k)
                  raw == diagonalsSigned[k]
                  pre == preshiftedDiagonals[k]
              IN  /\ DOMAIN pre = Slots(numSlots)
                  /\ \A r \in Slots(numSlots) : pre[(r + s) % numSlots] = raw[r]
                  /\ \A r1, r2 \in Slots(numSlots) :
                        (r1 + s) % numSlots = (r2 + s) % numSlots => r1 = r2
                  /\ \A v \in {raw[r] : r \in Slots(numSlots)}
                              \cup {pre[r] : r \in Slots(numSlots)} :
                        Cardinality({r \in Slots(numSlots) : pre[r] = v})
                            = Cardinality({r \in Slots(numSlots) : raw[r] = v})

\* C22 witness: a plan holding a diagonal with negative giant step whose
\* pre-shift moved its entries, on a slot count that is not a power of two.
C22_Witness ==
    /\ n1 >= 1
    /\ numSlots = 3
    /\ \E k \in DOMAIN preshiftedDiagonals :
          /\ k \div n1 < 0
          /\ ShiftOf(k) # 0
          /\ preshiftedDiagonals[k] # diagonalsSigned[k]


\* Positions of the log holding a given operation.
LogPositions(name, arg) ==
    {p \in 1 .. Len(oplog) : oplog[p] = Op(name, arg)}
\* Positions of the multiplications of the block of giant step j.
BlockMults(j) ==
    {p \in 1 .. Len(oplog) : oplog[p].op = "mult" /\ oplog[p].arg \div n1 = j}
\* The block additions to the result, in the order they happened.
BlockAdditions ==
    LET adds == SelectSeq(oplog, LAMBDA e : e.op = "addblock")
    IN  [p \in 1 .. Len(adds) |-> adds[p].arg]

\* C23: every giant step of usedGiantSteps has a non-empty block (the skip of
\* an empty block is never taken); a block with j # 0 is rotated exactly once,
\* by n1 * j, after all its products are accumulated and before it is added
\* to the result; the block with j = 0 is added unrotated without a key load;
\* the first block assigns the result and the later ones are added.
C23_GiantRotationOncePerBlock ==
    /\ (pc = "baby" /\ bi >= n1) => ~giantBlockFirst
    /\ pc \in {"giant_rotate", "giant_clear"} =>
          (bi >= n1 /\ ~giantBlockFirst /\ CurJ # 0)
    /\ pc = "combine" => (~giantBlockFirst /\ CurJ # 0)
    /\ pc = "save" =>
          /\ \A j \in usedGiantSteps \ {0} :
                /\ Cardinality(LogPositions("rotate", n1 * j)) = 1
                /\ Cardinality(LogPositions("load", n1 * j)) = 1
                /\ BlockMults(j) # {}
                /\ \A p \in LogPositions("rotate", n1 * j) :
                      /\ oplog[p - 1] = Op("load", n1 * j)
                      /\ \A q \in BlockMults(j) : q < p
                      /\ \A q \in 1 .. Len(oplog) :
                            (oplog[q].op = "add" /\ oplog[q].arg \div n1 = j)
                                => q < p
                      /\ \A q \in LogPositions("addblock", j) : q > p
                      /\ j = sortedGiantSteps[1] =>
                            \A q \in 1 .. Len(oplog) :
                                oplog[q].op = "addblock" => q > p
          /\ 0 \in usedGiantSteps =>
                /\ BlockMults(0) # {}
                /\ LogPositions("rotate", 0) = {}
                /\ LogPositions("load", 0) = {}
          /\ \A p \in 1 .. Len(oplog) :
                (oplog[p].op = "rotate" /\ oplog[p].arg \notin 1 .. (n1 - 1))
                    => oplog[p].arg \in {n1 * j : j \in usedGiantSteps \ {0}}
          /\ usedGiantSteps # {} =>
                /\ BlockAdditions = Tail(sortedGiantSteps)
                /\ ~first

\* C23 witness: a finished evaluation with a rotated block of negative giant
\* step, the unrotated block of step 0 and a rotated block of positive step,
\* the later two added to the result.
C23_Witness ==
    /\ pc = "save"
    /\ Len(sortedGiantSteps) >= 3
    /\ sortedGiantSteps[1] < 0
    /\ 0 \in usedGiantSteps
    /\ Len(BlockAdditions) >= 2
    /\ \E j \in usedGiantSteps : j > 0 /\ LogPositions("rotate", n1 * j) # {}


BabyAmounts == 1 .. (n1 - 1)
CacheInUse == pc \in {"giant", "baby", "baby_rotate", "baby_clear",
                      "giant_rotate", "giant_clear", "combine", "save"}

\* Once an entry of the cache is computed, no step changes it or its flag.
CacheEntriesStable ==
    \A i \in DOMAIN babyRotationComputed :
        babyRotationComputed[i] =>
            /\ i \in DOMAIN babyRotationComputed'
            /\ babyRotationComputed'[i]
            /\ babyRotationCache'[i] = babyRotationCache[i]

\* What holds of the cache and of the log in every state of the evaluation.
CacheFilledLazily ==
    /\ CacheInUse =>
          /\ DOMAIN babyRotationCache = 0 .. (n1 - 1)
          /\ babyRotationComputed[0]
          /\ babyRotationCache[0] = cipherInput
          /\ \A i \in BabyAmounts :
                /\ babyRotationComputed[i] =>
                      /\ babyRotationCache[i] = EvalRotate(cipherInput, i, numSlots)
                      /\ Cardinality(LogPositions("rotate", i)) = 1
                      /\ i \in usedBabySteps
                /\ Cardinality(LogPositions("rotate", i)) <= 1
                /\ Cardinality(LogPositions("load", i)) <= 1
          /\ LogPositions("load", 0) = {} /\ LogPositions("rotate", 0) = {}
    /\ pc = "save" =>
          /\ \A i \in BabyAmounts :
                /\ babyRotationComputed[i] <=> i \in usedBabySteps
                /\ \A p \in LogPositions("rotate", i) :
                      /\ oplog[p - 1] = Op("load", i)
                      /\ oplog[p + 1].op = "mult"
                      /\ oplog[p + 1].arg % n1 = i
                      /\ \A q \in 1 .. (p - 1) :
                            oplog[q].op = "mult" => oplog[q].arg % n1 # i
          /\ \A a \in rotationIndices : Cardinality(LogPositions("load", a)) = 1
          /\ \A p \in 1 .. Len(oplog) :
                oplog[p].op = "load" => oplog[p].arg \in rotationIndices

\* C24: the baby rotation cache is filled lazily and at most once per index:
\* entry 0 is the unrotated input and needs no key; for i > 0 the key of
\* amount i is loaded and the rotation of the input by i computed exactly
\* once, at the first use of i, and only when a populated diagonal has baby
\* index i; a computed entry is never recomputed or changed; so every
\* generated key, baby or giant, is loaded exactly once per evaluation.
C24_BabyCacheFilledOnce ==
    /\ []CacheFilledLazily
    /\ [][CacheEntriesStable]_vars

\* C24 witness: a finished evaluation in which a baby rotation was computed
\* once and then used by the multiplications of two blocks.
C24_Witness ==
    /\ pc = "save"
    /\ \E i \in BabyAmounts :
          /\ babyRotationComputed[i]
          /\ Cardinality({p \in 1 .. Len(oplog) :
                            oplog[p].op = "mult" /\ oplog[p].arg % n1 = i}) >= 2


\* The offsets multiplied, in the order of the multiplications.
MultipliedOffsets ==
    LET mults == SelectSeq(oplog, LAMBDA e : e.op = "mult")
    IN  [p \in 1 .. Len(mults) |-> mults[p].arg]
StrictlyAscending(q) == \A x, y \in DOMAIN q : x < y => q[x] < q[y]
AdditionCount ==
    Len(SelectSeq(oplog, LAMBDA e : e.op = "add" \/ e.op = "addblock"))

\* A step that logs a multiplication of offset k takes the rotation of the
\* input by the baby index of k and the pre-shifted diagonal stored under k.
MultUsesOwnOperands ==
    (Len(oplog') > Len(oplog) /\ oplog'[Len(oplog) + 1].op = "mult") =>
        LET k == oplog'[Len(oplog) + 1].arg
            j == k \div n1
            i == k % n1
        IN  /\ k \in DOMAIN preshiftedDiagonals
            /\ j = sortedGiantSteps[gIdx]
            /\ LET partial == EvalMult(EvalRotate(cipherInput, i, numSlots),
                                       preshiftedDiagonals[k], numSlots)
               IN  giantBlockSum' = IF giantBlockFirst THEN partial
                                    ELSE EvalAdd(giantBlockSum, partial, numSlots)

\* The order of the visits, in every state of the evaluation and at its end.
VisitsAscending ==
    /\ CacheInUse =>
          /\ StrictlyAscending(sortedGiantSteps)
          /\ {sortedGiantSteps[x] : x \in DOMAIN sortedGiantSteps} = usedGiantSteps
    /\ pc \in {"save", "exit1", "terminated"} =>
          /\ StrictlyAscending(MultipliedOffsets)
          /\ {MultipliedOffsets[x] : x \in DOMAIN MultipliedOffsets}
                \subseteq DOMAIN preshiftedDiagonals
    /\ (pc = "save" /\ DOMAIN preshiftedDiagonals # {}) =>
          /\ {MultipliedOffsets[x] : x \in DOMAIN MultipliedOffsets}
                = DOMAIN preshiftedDiagonals
          /\ Len(MultipliedOffsets) = Cardinality(DOMAIN preshiftedDiagonals)
          /\ AdditionCount = Cardinality(DOMAIN preshiftedDiagonals) - 1

CountsDRAM == variant \in DirectExamples \/ MeasuresDRAM(mode)
MarksPIN == variant \in DirectExamples \/ MeasuresPIN(mode)

\* The position of an event in the order a complete run has them in.
EventRank(e) ==
    CASE e = "dram_start"  -> 1
      [] e = "load_input"  -> 2
      [] e = "pin_start"   -> 3
      [] e = "pin_end"     -> 4
      [] e = "save_result" -> 5
      [] e = "dram_stop"   -> 6

Happened(e) == \E x \in DOMAIN events : events[x] = e

\* What a run that returns 0 has recorded.
CompleteTrace ==
    LET all == IF variant = "measuring"
               THEN <<"dram_start", "pin_start", "pin_end", "dram_stop">>
               ELSE <<"dram_start", "load_input", "pin_start", "pin_end",
                      "save_result", "dram_stop">>
        Kept(e) == /\ e \in {"dram_start", "dram_stop"} => CountsDRAM
                   /\ e \in {"pin_start", "pin_end"} => MarksPIN
    IN  SelectSeq(all, Kept)

C27_ExpectedIsRotation ==
    (variant = "rotation" /\ pc = "verify") =>
        \A i \in 0 .. (Len(TestVec) - 1) :
            expected[i + 1] = EvalRotate(PackedTestVec(numSlots), rotationIndex,
                                         numSlots)[i]

\* With exactly 8 slots the two agree: the rotation wraps where the loop does.
ExpectedRightWithEightSlots ==
    (variant = "rotation" /\ pc = "verify" /\ numSlots = Len(TestVec)) =>
        \A i \in 0 .. (Len(TestVec) - 1) : expected[i + 1] = result[i]

RotateDownAsStated ==
    LET n == probe.b
        positions == probe.a
        vec == probe.out[1]
        rotated == probe.out[2]
    IN  /\ DOMAIN rotated = Slots(n)
        /\ \A i \in Slots(n) : rotated[(i + positions) % n] = vec[i]

\* C29: for every vector of length n >= 1, n a power of two or not, and every
\* positions, negative ones included, the vector rotateVectorDown returns has
\* result[(i + positions) mod n] = vec[i] for all i (mod the non-negative
\* remainder): taking positions % n in unsigned 64-bit arithmetic leaves the
\* shift amount as it is.
C29_RotateVectorDown ==
    probe.fn = "rotateVectorDown" => RotateDownAsStated

\* The same for positions >= 0, and for negative positions when n divides
\* 2^64 (holds).
RotateDownWhereConversionIsHarmless ==
    (/\ probe.fn = "rotateVectorDown"
     /\ probe.a >= 0 \/ probe.b \in {1, 2, 4, 8}) => RotateDownAsStated

\* ------------------------------------------------- the result accumulator
\* The final step of the evaluation: the giant loop is over and Rescale is
\* next, or the result is about to be saved.
FinalStep == LoopFinished \/ pc = "save"

\* C30: whenever the evaluation reaches its final step (Rescale and the save
\* of the result) the accumulator has been assigned by at least one giant
\* block, for every matrix the setup accepts, one without a non-zero diagonal
\* included.
C30_ResultAssignedAtFinalStep ==
    FinalStep => (~first /\ result # Null)

\* The same for the plans with at least one diagonal (holds).
ResultAssignedOnPopulated ==
    (FinalStep /\ DOMAIN preshiftedDiagonals # {}) => (~first /\ result # Null)


====
